---- MODULE Spec2Model ----
(***************************************************************************)
(* Model of the fiscal printing path of test-escpos:                       *)
(*   - SF20FiscalPrinterAdapter  (services/fiscal_printer_service.py)      *)
(*   - PrinterFactory            (services/printer_factory.py)             *)
(*   - PrinterController.fiscal_print_receipt (controllers/...)            *)
(*   - SF20Driver and its framing codec (drivers/sf20_tcp.py)              *)
(* The printer and the TCP transport are the environment: every command    *)
(* handed to the socket meets one Outcome (send error, executed or         *)
(* refused by the printer, reply chunks, and how the stream ends).         *)
(***************************************************************************)
EXTENDS Integers, Sequences, FiniteSets, TLC

VARIABLES
    socket,         \* adapter.socket: "None", "open" (connected) or "dead"
    current_state,  \* adapter.current_state
    printerOpen,    \* the printer behind the adapter holds an open receipt
    last,           \* the adapter call that returned last, and what it did
    opensSinceClose,\* successful open_receipt calls since the last successful close_receipt
    unclosed,       \* connections the adapter established and has not closed
    ctl,            \* PrinterController.fiscal_print_receipt: the request being served
    drv,            \* SF20Driver.print_receipt: the call in progress
    factory,        \* PrinterFactory: its two class-level caches and the adapters built
    codec,          \* the framing codec of sf20_tcp.py: the last application of a function
    escpos,         \* ESCPOSPrinterAdapter, the printer behind it, and its last call
    hw,             \* HwProxyController.printer_action and the driver it dispatches to
    pure,           \* the last application of a builder or encoder to drawn arguments
    hook,           \* PosOrderHooks.on_order_completed: the order being handled
    par,            \* fiscal_print_receipt served by several threads on the one cached adapter
    sweep           \* PrinterFactory.disconnect_all in progress, statement by statement

adapterVars == <<socket, current_state, printerOpen, last, opensSinceClose, unclosed>>
sideVars == <<factory, codec, escpos, hw, pure, hook, par, sweep>>
exceptFactory == <<adapterVars, ctl, drv, codec, escpos, hw, pure, hook, par, sweep>>
exceptCodec == <<adapterVars, ctl, drv, factory, escpos, hw, pure, hook, par, sweep>>
exceptEscpos == <<adapterVars, ctl, drv, factory, codec, hw, pure, hook, par, sweep>>
exceptHw == <<adapterVars, ctl, drv, factory, codec, escpos, pure, hook, par, sweep>>
exceptPure == <<adapterVars, ctl, drv, factory, codec, escpos, hw, hook, par, sweep>>
exceptHook == <<adapterVars, ctl, drv, factory, codec, escpos, hw, pure, par, sweep>>
exceptHookFiscal == <<ctl, drv, factory, codec, escpos, hw, pure, par, sweep>>
exceptHookEscpos == <<adapterVars, ctl, drv, factory, codec, hw, pure, par, sweep>>
exceptPar == <<adapterVars, ctl, drv, factory, codec, escpos, hw, pure, hook, sweep>>
exceptFactorySweep == <<adapterVars, ctl, drv, codec, escpos, hw, pure, hook, par>>
vars == <<socket, current_state, printerOpen, last, opensSinceClose, unclosed, ctl, drv, factory,
          codec, escpos, hw, pure, hook, par, sweep>>

(***************************************************************************)
(* Bounds of the model                                                     *)
(***************************************************************************)
MaxLines == 2
MaxPayments == 2
MaxOpens == 2
MaxSockets == 2

Min(a, b) == IF a < b THEN a ELSE b

(***************************************************************************)
(* Bytes                                                                   *)
(***************************************************************************)
SF20_EOT == 4
ACK_BYTE == 6
NAK_BYTE == 21
B_OK == <<79, 75>>
B_ERROR == <<69, 82, 82, 79, 82>>
B_READY == <<82, 69, 65, 68, 89>>
B_RECEIPT_OPEN == <<82, 69, 67, 69, 73, 80, 84, 95, 79, 80, 69, 78>>
B_Z_REQUIRED == <<90, 95, 82, 69, 81, 85, 73, 82, 69, 68>>
B_MEMORY_FULL == <<77, 69, 77, 79, 82, 89, 95, 70, 85, 76, 76>>

IsDigit(b) == b >= 48 /\ b <= 57

\* Python's `sub in data` on bytes
Contains(data, sub) ==
    \E i \in 1..(Len(data) - Len(sub) + 1) : SubSeq(data, i, i + Len(sub) - 1) = sub

\* Python's data.find(sub), 1-based; 0 when absent
Find(data, sub) ==
    IF Contains(data, sub)
    THEN CHOOSE i \in 1..(Len(data) - Len(sub) + 1) :
            /\ SubSeq(data, i, i + Len(sub) - 1) = sub
            /\ \A j \in 1..(i - 1) : SubSeq(data, j, j + Len(sub) - 1) # sub
    ELSE 0

(***************************************************************************)
(* SF20FiscalPrinterAdapter: constants                                     *)
(***************************************************************************)
STATE_INIT == "init"
STATE_RECEIPT_OPEN == "receipt_open"
STATE_RECEIPT_CLOSED == "receipt_closed"
STATE_Z_REQUIRED == "z_report_required"
STATE_MEMORY_FULL == "memory_full"
STATE_ERROR == "error"

SF20_CMD_STATUS == "STATUS"
SF20_CMD_RECEIPT_OPEN == "RECEIPT_OPEN"
SF20_CMD_RECEIPT_CLOSE == "RECEIPT_CLOSE"
SF20_CMD_ITEM == "ITEM"
SF20_CMD_PAYMENT == "PAYMENT"
SF20_CMD_Z_REPORT == "Z_REPORT"

MaxReceiptDigits == 10
MaxErrorSlice == 50


(***************************************************************************)
(* Environment: the printer and the TCP stream behind adapter.socket       *)
(***************************************************************************)
\* A reply is the chunks recv() hands out, then what recv() does once they
\* are used up: "close" (returns b''), "timeout" or "error" (raises).
LostReply == [chunks |-> <<>>, end |-> "timeout"]

ElevenDigits == <<49, 50, 51, 52, 53, 54, 55, 56, 57, 48, 49>>

\* What a printer that executed the command may answer
PositiveReplies(cmd) ==
    IF cmd = SF20_CMD_STATUS
    THEN {[chunks |-> <<B_READY \o <<SF20_EOT>>>>, end |-> "close"],
          [chunks |-> <<B_RECEIPT_OPEN \o <<SF20_EOT>>>>, end |-> "close"],
          [chunks |-> <<B_Z_REQUIRED \o <<SF20_EOT>>>>, end |-> "close"],
          LostReply}
    ELSE {[chunks |-> <<B_OK \o <<SF20_EOT>>>>, end |-> "close"],
          [chunks |-> <<<<ACK_BYTE, 49, 50, SF20_EOT>>>>, end |-> "close"],
          [chunks |-> <<<<ACK_BYTE, 55>>, <<32, 51, SF20_EOT>>>>, end |-> "close"],
          [chunks |-> <<<<ACK_BYTE>> \o ElevenDigits>>, end |-> "close"],
          [chunks |-> <<B_OK>>, end |-> "timeout"],
          LostReply}

\* What a printer that refused the command may answer
NegativeReplies ==
    {[chunks |-> <<B_ERROR \o <<32, 53, SF20_EOT>>>>, end |-> "close"],
     [chunks |-> <<<<NAK_BYTE, SF20_EOT>>>>, end |-> "close"],
     [chunks |-> <<>>, end |-> "close"],
     [chunks |-> <<>>, end |-> "error"],
     LostReply}

\* The printer executes a command only in the receipt phase it belongs to
PrinterPermits(cmd, popen) ==
    CASE cmd = SF20_CMD_RECEIPT_OPEN -> ~popen
      [] cmd \in {SF20_CMD_ITEM, SF20_CMD_PAYMENT, SF20_CMD_RECEIPT_CLOSE} -> popen
      [] cmd = SF20_CMD_Z_REPORT -> ~popen
      [] OTHER -> TRUE

SendError == [send |-> "error", exec |-> FALSE, chunks |-> <<>>, end |-> "error"]

\* Everything that can happen to one command handed to socket `sock`
Outcomes(cmd, sock, popen) ==
    IF sock # "open" THEN {SendError}
    ELSE {SendError}
         \cup {[send |-> "ok", exec |-> FALSE, chunks |-> r.chunks, end |-> r.end] :
                  r \in NegativeReplies}
         \cup (IF PrinterPermits(cmd, popen)
               THEN {[send |-> "ok", exec |-> TRUE, chunks |-> r.chunks, end |-> r.end] :
                        r \in PositiveReplies(cmd)}
               ELSE {})

PrinterAfter(cmd, popen, o) ==
    IF ~o.exec THEN popen
    ELSE IF cmd = SF20_CMD_RECEIPT_OPEN THEN TRUE
    ELSE IF cmd = SF20_CMD_RECEIPT_CLOSE THEN FALSE
    ELSE popen

(***************************************************************************)
(* SF20FiscalPrinterAdapter: helpers                                       *)
(***************************************************************************)
RECURSIVE ReceiveLoop(_, _, _)
ReceiveLoop(response, chunks, end) ==
    IF chunks = <<>>
    THEN IF end = "close" THEN [exc |-> "none", data |-> response]
         ELSE [exc |-> end, data |-> <<>>]
    ELSE LET grown == response \o Head(chunks)
         IN IF Contains(grown, <<SF20_EOT>>)
            THEN [exc |-> "none", data |-> grown]
            ELSE ReceiveLoop(grown, Tail(chunks), end)

_receive_response(o) == ReceiveLoop(<<>>, o.chunks, o.end)

\* exc: "none", or the exception that leaves _send_command
_send_command(sock, o) ==
    IF sock = "None"
    THEN [exc |-> "not_connected", sent |-> FALSE, response |-> <<>>]
    ELSE IF o.send = "error"
    THEN [exc |-> "error", sent |-> TRUE, response |-> <<>>]
    ELSE LET r == _receive_response(o)
         IN [exc |-> r.exc, sent |-> TRUE, response |-> r.data]

_is_success_response(response) ==
    Len(response) > 0 /\ (Contains(response, B_OK) \/ Contains(response, <<ACK_BYTE>>))

_parse_error_response(response) ==
    IF Contains(response, B_ERROR)
    THEN LET idx == Find(response, B_ERROR)
         IN [detail |-> "", data |-> SubSeq(response, idx, Min(idx + MaxErrorSlice - 1, Len(response)))]
    ELSE [detail |-> "Unknown error", data |-> <<>>]

RECURSIVE DigitRun(_, _, _)
DigitRun(response, i, n) ==
    IF n = 0 \/ i > Len(response) \/ ~IsDigit(response[i]) THEN <<>>
    ELSE <<response[i]>> \o DigitRun(response, i + 1, n - 1)

RECURSIVE FirstDigit(_, _)
FirstDigit(response, i) ==
    IF i > Len(response) THEN 0
    ELSE IF IsDigit(response[i]) THEN i
    ELSE FirstDigit(response, i + 1)

\* mutant: every decimal digit of the response, not the first run of them
RECURSIVE AllDigits(_)
AllDigits(response) ==
    IF response = <<>> THEN <<>>
    ELSE (IF IsDigit(Head(response)) THEN <<Head(response)>> ELSE <<>>)
         \o AllDigits(Tail(response))

parse_receipt_number_all_digits(response) ==
    IF AllDigits(response) = <<>> THEN [text |-> "UNKNOWN", data |-> <<>>]
    ELSE [text |-> "", data |-> AllDigits(response)]

\* re.search(rb'(\d{1,10})', response): the leftmost digit, then greedily up to 10
_parse_receipt_number(response) ==
    LET i == FirstDigit(response, 1)
    IN IF i = 0 THEN [text |-> "UNKNOWN", data |-> <<>>]
       ELSE [text |-> "", data |-> DigitRun(response, i, MaxReceiptDigits)]

NoStatus == [state |-> "", ready |-> FALSE, error |-> FALSE]

_parse_status_response(response) ==
    IF Contains(response, B_READY) THEN [state |-> STATE_RECEIPT_CLOSED, ready |-> TRUE, error |-> FALSE]
    ELSE IF Contains(response, B_RECEIPT_OPEN) THEN [state |-> STATE_RECEIPT_OPEN, ready |-> TRUE, error |-> FALSE]
    ELSE IF Contains(response, B_Z_REQUIRED) THEN [state |-> STATE_Z_REQUIRED, ready |-> FALSE, error |-> FALSE]
    ELSE IF Contains(response, B_MEMORY_FULL) THEN [state |-> STATE_MEMORY_FULL, ready |-> FALSE, error |-> FALSE]
    ELSE IF Contains(response, B_ERROR) THEN [state |-> STATE_ERROR, ready |-> FALSE, error |-> TRUE]
    ELSE [state |-> STATE_INIT, ready |-> FALSE, error |-> FALSE]

(***************************************************************************)
(* SF20FiscalPrinterAdapter: the public methods, as functions of            *)
(* (current_state, socket, outcome) to what the call returns and does       *)
(***************************************************************************)
Msg(t) == [text |-> t, detail |-> "", data |-> <<>>]

\* a return before anything is handed to the socket
Result(ok, msg, st) ==
    [ok |-> ok, msg |-> msg, exc |-> "none", raised |-> FALSE, sent |-> FALSE,
     resp |-> <<>>, state |-> st, status |-> NoStatus]

\* mutant: the handler also marks the adapter as failed
CaughtMarksError(c, text, st) ==
    [ok |-> FALSE, msg |-> Msg(text), exc |-> c.exc, raised |-> FALSE, sent |-> c.sent,
     resp |-> <<>>, state |-> STATE_ERROR, status |-> NoStatus]

\* `except Exception as e: ...; return False, msg`
Caught(c, text, st) ==
    [ok |-> FALSE, msg |-> Msg(text), exc |-> c.exc, raised |-> FALSE, sent |-> c.sent,
     resp |-> <<>>, state |-> st, status |-> NoStatus]

\* a return after a response was received
Replied(ok, msg, c, st) ==
    [ok |-> ok, msg |-> msg, exc |-> "none", raised |-> FALSE, sent |-> c.sent,
     resp |-> c.response, state |-> st, status |-> NoStatus]

Failed(text, response) ==
    LET e == _parse_error_response(response)
    IN [text |-> text, detail |-> e.detail, data |-> e.data]

\* mutant: no check of current_state
open_receipt_unguarded(st, sock, o) ==
    LET c == _send_command(sock, o)
    IN IF c.exc # "none" THEN Caught(c, "Error opening receipt on SF20: ", st)
       ELSE IF _is_success_response(c.response)
       THEN Replied(TRUE, Msg("Receipt opened"), c, STATE_RECEIPT_OPEN)
       ELSE Replied(FALSE, Failed("Failed to open receipt: ", c.response), c, st)

open_receipt(st, sock, o) ==
    IF st = STATE_RECEIPT_OPEN
    THEN Result(FALSE, Msg("Receipt already open"), st)
    ELSE LET c == _send_command(sock, o)
         IN IF c.exc # "none" THEN Caught(c, "Error opening receipt on SF20: ", st)
            ELSE IF _is_success_response(c.response)
            THEN Replied(TRUE, Msg("Receipt opened"), c, STATE_RECEIPT_OPEN)
            ELSE Replied(FALSE, Failed("Failed to open receipt: ", c.response), c, st)

\* mutant: no check of current_state
add_item_unguarded(st, sock, o) ==
    LET c == _send_command(sock, o)
    IN IF c.exc # "none" THEN Caught(c, "Error adding item to SF20: ", st)
       ELSE IF _is_success_response(c.response)
       THEN Replied(TRUE, Msg("Item registered"), c, st)
       ELSE Replied(FALSE, Failed("Failed to register item: ", c.response), c, st)

add_item(st, sock, o) ==
    IF st # STATE_RECEIPT_OPEN
    THEN Result(FALSE, Msg("No receipt open"), st)
    ELSE LET c == _send_command(sock, o)
         IN IF c.exc # "none" THEN Caught(c, "Error adding item to SF20: ", st)
            ELSE IF _is_success_response(c.response)
            THEN Replied(TRUE, Msg("Item registered"), c, st)
            ELSE Replied(FALSE, Failed("Failed to register item: ", c.response), c, st)

process_payment(st, sock, o) ==
    IF st # STATE_RECEIPT_OPEN
    THEN Result(FALSE, Msg("No receipt open"), st)
    ELSE LET c == _send_command(sock, o)
         IN IF c.exc # "none" THEN Caught(c, "Error processing payment on SF20: ", st)
            ELSE IF _is_success_response(c.response)
            THEN Replied(TRUE, Msg("Payment processed"), c, st)
            ELSE Replied(FALSE, Failed("Failed to process payment: ", c.response), c, st)

close_receipt(st, sock, o) ==
    IF st # STATE_RECEIPT_OPEN
    THEN Result(FALSE, Msg("No receipt open"), st)
    ELSE LET c == _send_command(sock, o)
         IN IF c.exc # "none" THEN Caught(c, "Error closing receipt on SF20: ", st)
            ELSE IF _is_success_response(c.response)
            THEN LET n == _parse_receipt_number(c.response)
                 IN Replied(TRUE, [text |-> n.text, detail |-> "", data |-> n.data], c,
                            STATE_RECEIPT_CLOSED)
            ELSE Replied(FALSE, Failed("Failed to close receipt: ", c.response), c, st)

\* mutant: no check of current_state
execute_z_report_unguarded(st, sock, o) ==
    LET c == _send_command(sock, o)
    IN IF c.exc # "none" THEN Caught(c, "Error executing Z report on SF20: ", st)
       ELSE IF _is_success_response(c.response)
       THEN Replied(TRUE, Msg("Z report executed successfully"), c, st)
       ELSE Replied(FALSE, Failed("Z report execution failed: ", c.response), c, st)

execute_z_report(st, sock, o) ==
    IF st = STATE_RECEIPT_OPEN
    THEN Result(FALSE, Msg("Cannot execute Z report while receipt is open"), st)
    ELSE LET c == _send_command(sock, o)
         IN IF c.exc # "none" THEN Caught(c, "Error executing Z report on SF20: ", st)
            ELSE IF _is_success_response(c.response)
            THEN Replied(TRUE, Msg("Z report executed successfully"), c, st)
            ELSE Replied(FALSE, Failed("Z report execution failed: ", c.response), c, st)

\* returns a dict; ok stands for its 'ready'
get_status(st, sock, o) ==
    LET c == _send_command(sock, o)
    IN IF c.exc # "none"
       THEN [Caught(c, "", st) EXCEPT
                !.status = [state |-> STATE_ERROR, ready |-> FALSE, error |-> TRUE]]
       ELSE LET d == _parse_status_response(c.response)
            IN [Replied(d.ready, Msg(""), c, st) EXCEPT !.status = d]

Method(op, st, sock, o) ==
    CASE op = "open_receipt" -> open_receipt(st, sock, o)
      [] op = "add_item" -> add_item(st, sock, o)
      [] op = "process_payment" -> process_payment(st, sock, o)
      [] op = "close_receipt" -> close_receipt(st, sock, o)
      [] op = "execute_z_report" -> execute_z_report(st, sock, o)
      [] op = "get_status" -> get_status(st, sock, o)

CommandOf(op) ==
    CASE op = "open_receipt" -> SF20_CMD_RECEIPT_OPEN
      [] op = "add_item" -> SF20_CMD_ITEM
      [] op = "process_payment" -> SF20_CMD_PAYMENT
      [] op = "close_receipt" -> SF20_CMD_RECEIPT_CLOSE
      [] op = "execute_z_report" -> SF20_CMD_Z_REPORT
      [] op = "get_status" -> SF20_CMD_STATUS

NoCall ==
    [op |-> "none", arg |-> "", pre |-> STATE_INIT, popen |-> FALSE, psock |-> "None",
     exec |-> FALSE, ret |-> Result(TRUE, Msg(""), STATE_INIT)]

\* One call of a method of the cached adapter, with everything it changes
AdapterCall(op, arg, o) ==
    LET r == Method(op, current_state, socket, o)
        delivered == r.sent /\ o.send = "ok"
    IN /\ current_state' = r.state
       /\ socket' = socket
       /\ printerOpen' = IF delivered THEN PrinterAfter(CommandOf(op), printerOpen, o)
                         ELSE printerOpen
       /\ last' = [op |-> op, arg |-> arg, pre |-> current_state, popen |-> printerOpen,
                   psock |-> socket, exec |-> delivered /\ o.exec, ret |-> r]
       /\ opensSinceClose' =
            IF op = "open_receipt" /\ r.ok THEN Min(opensSinceClose + 1, MaxOpens)
            ELSE IF op = "close_receipt" /\ r.ok THEN 0
            ELSE opensSinceClose
       /\ unclosed' = unclosed

ConnectOutcomes == {"ok", "timeout", "refused"}

\* lines 72-74: the socket self.socket referred to is dropped as it is
ConnectionsAfterConnect(n, sock, co) == n + (IF co = "ok" THEN 1 ELSE 0)

\* lines 94-101: `if self.socket:` then close(), which releases the
\* connection whether or not it raises
ConnectionsAfterDisconnect(n, sock) == IF sock = "open" THEN n - 1 ELSE n

\* connect(): a new socket object replaces self.socket before connect() is tried
AdapterConnect(co) ==
    /\ socket' = IF co = "ok" THEN "open" ELSE "dead"
    /\ unclosed' = ConnectionsAfterConnect(unclosed, socket, co)
    /\ last' = [op |-> "connect", arg |-> "", pre |-> current_state, popen |-> printerOpen,
                psock |-> socket, exec |-> FALSE,
                ret |-> [Result(co = "ok",
                                Msg(CASE co = "ok" -> "Connected successfully"
                                      [] co = "timeout" -> "Connection timeout to SF20"
                                      [] OTHER -> "Connection error to SF20"),
                                current_state)
                         EXCEPT !.exc = IF co = "ok" THEN "none" ELSE co]]
    /\ UNCHANGED <<current_state, printerOpen, opensSinceClose>>

AdapterDisconnect ==
    /\ socket' = "None"
    /\ unclosed' = ConnectionsAfterDisconnect(unclosed, socket)
    /\ last' = [op |-> "disconnect", arg |-> "", pre |-> current_state, popen |-> printerOpen,
                psock |-> socket, exec |-> FALSE, ret |-> Result(TRUE, Msg(""), current_state)]
    /\ UNCHANGED <<current_state, printerOpen, opensSinceClose>>

(***************************************************************************)
(* PrinterController.fiscal_print_receipt, one adapter call per step        *)
(***************************************************************************)
\* receipt_data['items'] / ['payments'] of n entries; an entry is named by its position
Entries(n) == [k \in 1..n |-> k]

NoResult ==
    [present |-> FALSE, success |-> FALSE, message |-> "", cause |-> Msg(""),
     receipt_number |-> Msg(""), fail_safe_triggered |-> FALSE]

Failure(message, cause) ==
    [present |-> TRUE, success |-> FALSE, message |-> message, cause |-> cause,
     receipt_number |-> Msg(""), fail_safe_triggered |-> FALSE]

IdleCtl ==
    [pc |-> "idle", fail_safe |-> FALSE, items |-> <<>>, payments |-> <<>>, i |-> 0,
     log |-> <<>>, result |-> NoResult]

Entry(op, arg, r) == [op |-> op, arg |-> arg, ok |-> r.ok, transport |-> r.exc # "none"]

\* where the handler stands once item/payment number i - 1 of phase pc is done
Advance(c, pc, i) ==
    IF pc = "items" /\ i <= Len(c.items) THEN [c EXCEPT !.pc = "items", !.i = i]
    ELSE IF pc = "items" THEN
        IF Len(c.payments) >= 1 THEN [c EXCEPT !.pc = "payments", !.i = 1]
        ELSE [c EXCEPT !.pc = "close", !.i = 0]
    ELSE IF i <= Len(c.payments) THEN [c EXCEPT !.pc = "payments", !.i = i]
    ELSE [c EXCEPT !.pc = "close", !.i = 0]

Return(c, result) == [c EXCEPT !.pc = "idle", !.i = 0, !.result = result]

\* lines 155-189: the request is read and the cached adapter looked up
CtlBegin(req, fs, ni, np) ==
    /\ ctl.pc = "idle"
    /\ ctl' =
         IF req = "missing"
         THEN Return(IdleCtl, Failure("Missing pos_config_id or receipt_data", Msg("")))
         ELSE IF req = "unconfigured"
         THEN Return(IdleCtl, Failure("Fiscal printer not configured", Msg("")))
         ELSE [pc |-> IF socket = "None" THEN "connect" ELSE "open", fail_safe |-> fs,
               items |-> Entries(ni), payments |-> Entries(np), i |-> 0, log |-> <<>>,
               result |-> NoResult]
    /\ UNCHANGED <<adapterVars, drv, sideVars>>

\* lines 186-189
CtlConnect(co) ==
    /\ ctl.pc = "connect"
    /\ AdapterConnect(co)
    /\ ctl' = IF co = "ok" THEN [ctl EXCEPT !.pc = "open"]
              ELSE Return(ctl, Failure("", last'.ret.msg))
    /\ UNCHANGED <<drv, sideVars>>

\* lines 193-195
CtlOpen(o) ==
    /\ ctl.pc = "open"
    /\ AdapterCall("open_receipt", 0, o)
    /\ LET r == last'.ret
           c == [ctl EXCEPT !.log = Append(@, Entry("open_receipt", 0, r))]
       IN ctl' = IF ~r.ok THEN Return(c, Failure("Failed to open receipt: ", r.msg))
                 ELSE Advance(c, "items", 1)
    /\ UNCHANGED <<drv, sideVars>>

\* lines 198-207
CtlItem(o) ==
    /\ ctl.pc = "items"
    /\ AdapterCall("add_item", ctl.items[ctl.i], o)
    /\ LET r == last'.ret
           c == [ctl EXCEPT !.log = Append(@, Entry("add_item", ctl.items[ctl.i], r))]
       IN ctl' = IF ~r.ok /\ ~ctl.fail_safe
                 THEN Return(c, Failure("Item registration failed: ", r.msg))
                 ELSE Advance(c, "items", ctl.i + 1)
    /\ UNCHANGED <<drv, sideVars>>

\* lines 210-216
CtlPayment(o) ==
    /\ ctl.pc = "payments"
    /\ AdapterCall("process_payment", ctl.payments[ctl.i], o)
    /\ LET r == last'.ret
           c == [ctl EXCEPT !.log = Append(@, Entry("process_payment", ctl.payments[ctl.i], r))]
       IN ctl' = IF ~r.ok /\ ~ctl.fail_safe
                 THEN Return(c, Failure("Payment failed: ", r.msg))
                 ELSE Advance(c, "payments", ctl.i + 1)
    /\ UNCHANGED <<drv, sideVars>>

\* lines 219-251
CtlClose(o) ==
    /\ ctl.pc = "close"
    /\ AdapterCall("close_receipt", 0, o)
    /\ LET r == last'.ret
           c == [ctl EXCEPT !.log = Append(@, Entry("close_receipt", 0, r))]
       IN ctl' =
            IF ~r.ok
            THEN IF ctl.fail_safe
                 THEN Return(c, [present |-> TRUE, success |-> TRUE,
                                 message |-> "Receipt processed (printer error, fail-safe mode)",
                                 cause |-> Msg(""), receipt_number |-> Msg("ERROR"),
                                 fail_safe_triggered |-> TRUE])
                 ELSE Return(c, Failure("Failed to close receipt: ", r.msg))
            ELSE Return(c, [present |-> TRUE, success |-> TRUE,
                            message |-> "Receipt printed successfully",
                            cause |-> Msg(""), receipt_number |-> r.msg,
                            fail_safe_triggered |-> FALSE])
    /\ UNCHANGED <<drv, sideVars>>

(***************************************************************************)
(* drivers/sf20_tcp.py: the framing codec                                   *)
(***************************************************************************)
STX == 2
ETX == 3
CMD_OPEN_RECEIPT == 48
CMD_SELL_ITEM == 49
CMD_PAYMENT == 51
CMD_CLOSE_RECEIPT == 52
CMD_CANCEL == 54

RECURSIVE Xor(_, _)
Xor(a, b) ==
    IF a = 0 THEN b
    ELSE IF b = 0 THEN a
    ELSE (((a % 2) + (b % 2)) % 2) + 2 * Xor(a \div 2, b \div 2)

\* mutant: the top bit is left out of the checksum
RECURSIVE compute_checksum_seven_bits(_)
compute_checksum_seven_bits(data) ==
    IF data = <<>> THEN 0
    ELSE Xor(compute_checksum_seven_bits(SubSeq(data, 1, Len(data) - 1)),
             data[Len(data)] % 128)

\* mutant: the bytes are added up instead
RECURSIVE compute_checksum_additive(_)
compute_checksum_additive(data) ==
    IF data = <<>> THEN 0
    ELSE (compute_checksum_additive(SubSeq(data, 1, Len(data) - 1)) + data[Len(data)]) % 256

RECURSIVE _compute_checksum(_)
_compute_checksum(data) ==
    IF data = <<>> THEN 0
    ELSE Xor(_compute_checksum(SubSeq(data, 1, Len(data) - 1)), data[Len(data)])

_frame_message(command, payload) ==
    LET message_body == <<command>> \o payload
    IN <<STX>> \o message_body \o <<_compute_checksum(message_body), ETX>>

NoBytes == <<>>

\* mutant: the payload ends at its first ETX byte
parse_response_until_etx(data) ==
    LET n == Len(data)
        ends == {k \in 3..(n - 2) : data[k] = ETX}
        stop == IF ends = {} THEN n - 2 ELSE (CHOOSE k \in ends : \A j \in ends : k <= j) - 1
    IN IF n < 4
       THEN [success |-> FALSE, error |-> "response_too_short", command |-> 0,
             payload |-> NoBytes, expected |-> -1, received |-> -1, canRetry |-> "absent"]
       ELSE IF data[1] # STX \/ data[n] # ETX
       THEN [success |-> FALSE, error |-> "invalid_framing", command |-> 0,
             payload |-> NoBytes, expected |-> -1, received |-> -1, canRetry |-> "absent"]
       ELSE IF data[n - 1] # _compute_checksum(SubSeq(data, 2, n - 2))
       THEN [success |-> FALSE, error |-> "checksum_mismatch", command |-> 0,
             payload |-> NoBytes,
             expected |-> _compute_checksum(SubSeq(data, 2, n - 2)),
             received |-> data[n - 1], canRetry |-> "absent"]
       ELSE [success |-> TRUE, error |-> "", command |-> data[2],
             payload |-> SubSeq(data, 3, stop),
             expected |-> -1, received |-> -1, canRetry |-> "absent"]

\* mutant: the checksum is looked at before the framing bytes
parse_response_checksum_first(data) ==
    IF Len(data) < 4
    THEN [success |-> FALSE, error |-> "response_too_short", command |-> 0,
          payload |-> NoBytes, expected |-> -1, received |-> -1, canRetry |-> "absent"]
    ELSE IF data[Len(data) - 1] # _compute_checksum(SubSeq(data, 2, Len(data) - 2))
    THEN [success |-> FALSE, error |-> "checksum_mismatch", command |-> 0,
          payload |-> NoBytes,
          expected |-> _compute_checksum(SubSeq(data, 2, Len(data) - 2)),
          received |-> data[Len(data) - 1], canRetry |-> "absent"]
    ELSE IF data[1] # STX \/ data[Len(data)] # ETX
    THEN [success |-> FALSE, error |-> "invalid_framing", command |-> 0,
          payload |-> NoBytes, expected |-> -1, received |-> -1, canRetry |-> "absent"]
    ELSE [success |-> TRUE, error |-> "", command |-> data[2],
          payload |-> SubSeq(data, 3, Len(data) - 2),
          expected |-> -1, received |-> -1, canRetry |-> "absent"]

_parse_response(data) ==
    IF Len(data) < 4
    THEN [success |-> FALSE, error |-> "response_too_short", command |-> 0,
          payload |-> NoBytes, expected |-> -1, received |-> -1, canRetry |-> "absent"]
    ELSE IF data[1] # STX \/ data[Len(data)] # ETX
    THEN [success |-> FALSE, error |-> "invalid_framing", command |-> 0,
          payload |-> NoBytes, expected |-> -1, received |-> -1, canRetry |-> "absent"]
    ELSE IF data[Len(data) - 1] # _compute_checksum(SubSeq(data, 2, Len(data) - 2))
    THEN [success |-> FALSE, error |-> "checksum_mismatch", command |-> 0,
          payload |-> NoBytes,
          expected |-> _compute_checksum(SubSeq(data, 2, Len(data) - 2)),
          received |-> data[Len(data) - 1], canRetry |-> "absent"]
    ELSE [success |-> TRUE, error |-> "", command |-> data[2],
          payload |-> SubSeq(data, 3, Len(data) - 2),
          expected |-> -1, received |-> -1, canRetry |-> "absent"]

(***************************************************************************)
(* SF20Driver: one connection per command                                   *)
(***************************************************************************)
\* What can happen to one _send_command: the connect, the send, the chunks
\* recv() hands out and what recv() does after them
DrvOutcomes(cmd) ==
    {[connect |-> "timeout", send |-> "ok", chunks |-> <<>>, end |-> "close"],
     [connect |-> "refused", send |-> "ok", chunks |-> <<>>, end |-> "close"],
     [connect |-> "ok", send |-> "error", chunks |-> <<>>, end |-> "close"]}
    \cup {[connect |-> "ok", send |-> "ok", chunks |-> r.chunks, end |-> r.end] :
            r \in {[chunks |-> <<_frame_message(cmd, <<>>)>>, end |-> "close"],
                   [chunks |-> <<<<STX, cmd, 49>>, <<50>> \o
                                 <<_compute_checksum(<<cmd, 49, 50>>), ETX>>>>,
                    end |-> "timeout"],
                   [chunks |-> <<_frame_message(NAK_BYTE, <<>>)>>, end |-> "close"],
                   [chunks |-> <<<<STX, cmd, Xor(cmd, 1), ETX>>>>, end |-> "close"],
                   [chunks |-> <<<<ACK_BYTE, cmd, cmd, ETX>>>>, end |-> "close"],
                   [chunks |-> <<<<NAK_BYTE>>>>, end |-> "close"],
                   [chunks |-> <<>>, end |-> "close"],
                   [chunks |-> <<>>, end |-> "error"],
                   [chunks |-> <<>>, end |-> "timeout"]}}

\* lines 142-149: read until a chunk holds ETX, or recv() returns b''
RECURSIVE DrvReceiveLoop(_, _, _)
DrvReceiveLoop(response, chunks, end) ==
    IF chunks = <<>>
    THEN IF end = "close" THEN [exc |-> "none", data |-> response]
         ELSE [exc |-> end, data |-> <<>>]
    ELSE IF Contains(Head(chunks), <<ETX>>)
    THEN [exc |-> "none", data |-> response \o Head(chunks)]
    ELSE DrvReceiveLoop(response \o Head(chunks), Tail(chunks), end)

DrvError(error, retry) ==
    [success |-> FALSE, error |-> error, command |-> 0, payload |-> NoBytes,
     expected |-> -1, received |-> -1, canRetry |-> retry]

\* SF20Driver._send_command
DrvSendCommand(o) ==
    IF o.connect = "timeout" THEN DrvError("timeout", "true")
    ELSE IF o.connect = "refused" \/ o.send = "error" THEN DrvError("socket_error", "true")
    ELSE LET r == DrvReceiveLoop(<<>>, o.chunks, o.end)
         IN IF r.exc = "timeout" THEN DrvError("timeout", "true")
            ELSE IF r.exc = "error" THEN DrvError("socket_error", "true")
            ELSE _parse_response(r.data)

IdleDrv ==
    [pc |-> "idle", lines |-> <<>>, payments |-> <<>>, i |-> 0, sent |-> <<>>,
     status |-> "", message |-> "", details |-> DrvError("", "absent")]

Sent(cmd, arg, o, r) ==
    [cmd |-> cmd, arg |-> arg, ok |-> r.success,
     wire |-> o.connect = "ok" /\ o.send = "ok"]

DrvAdvance(d, pc, i) ==
    IF pc = "items" /\ i <= Len(d.lines) THEN [d EXCEPT !.pc = "items", !.i = i]
    ELSE IF pc = "items" THEN
        IF Len(d.payments) >= 1 THEN [d EXCEPT !.pc = "payments", !.i = 1]
        ELSE [d EXCEPT !.pc = "close", !.i = 0]
    ELSE IF i <= Len(d.payments) THEN [d EXCEPT !.pc = "payments", !.i = i]
    ELSE [d EXCEPT !.pc = "close", !.i = 0]

DrvReturn(d, status, message, details) ==
    [d EXCEPT !.pc = "idle", !.i = 0, !.status = status, !.message = message,
              !.details = details]

\* lines 211-212
DrvBegin(nl, np) ==
    /\ drv.pc = "idle"
    /\ drv' = [IdleDrv EXCEPT !.pc = "open", !.lines = Entries(nl), !.payments = Entries(np)]
    /\ UNCHANGED <<adapterVars, ctl, sideVars>>

\* lines 215-221
DrvOpenReceipt(o) ==
    /\ drv.pc = "open"
    /\ LET r == DrvSendCommand(o)
           d == [drv EXCEPT !.sent = Append(@, Sent(CMD_OPEN_RECEIPT, 0, o, r))]
       IN drv' = IF ~r.success THEN DrvReturn(d, "error", "Failed to open receipt", r)
                 ELSE DrvAdvance(d, "items", 1)
    /\ UNCHANGED <<adapterVars, ctl, sideVars>>

\* mutant: a failed line does not stop the loop
DrvSellItemKeepsGoing(o) ==
    /\ drv.pc = "items"
    /\ LET r == DrvSendCommand(o)
           d == [drv EXCEPT !.sent = Append(@, Sent(CMD_SELL_ITEM, drv.lines[drv.i], o, r))]
       IN drv' = DrvAdvance(d, "items", drv.i + 1)
    /\ UNCHANGED <<adapterVars, ctl, sideVars>>

\* lines 224-232, up to the call of cancel_receipt
DrvSellItem(o) ==
    /\ drv.pc = "items"
    /\ LET r == DrvSendCommand(o)
           d == [drv EXCEPT !.sent = Append(@, Sent(CMD_SELL_ITEM, drv.lines[drv.i], o, r))]
       IN drv' = IF ~r.success
                 THEN [d EXCEPT !.pc = "cancel", !.message = "Failed to add item: ",
                                !.details = r]
                 ELSE DrvAdvance(d, "items", drv.i + 1)
    /\ UNCHANGED <<adapterVars, ctl, sideVars>>

\* lines 235-243, up to the call of cancel_receipt
DrvApplyPayment(o) ==
    /\ drv.pc = "payments"
    /\ LET r == DrvSendCommand(o)
           d == [drv EXCEPT !.sent = Append(@, Sent(CMD_PAYMENT, drv.payments[drv.i], o, r))]
       IN drv' = IF ~r.success
                 THEN [d EXCEPT !.pc = "cancel", !.message = "Failed to apply payment",
                                !.details = r]
                 ELSE DrvAdvance(d, "payments", drv.i + 1)
    /\ UNCHANGED <<adapterVars, ctl, sideVars>>

\* lines 227-232 and 238-243: cancel_receipt({}), its result dropped, then the return
DrvCancelReceipt(o) ==
    /\ drv.pc = "cancel"
    /\ LET r == DrvSendCommand(o)
           d == [drv EXCEPT !.sent = Append(@, Sent(CMD_CANCEL, 0, o, r))]
       IN drv' = DrvReturn(d, "error", drv.message, drv.details)
    /\ UNCHANGED <<adapterVars, ctl, sideVars>>

\* lines 246-258
DrvCloseReceipt(o) ==
    /\ drv.pc = "close"
    /\ LET r == DrvSendCommand(o)
           d == [drv EXCEPT !.sent = Append(@, Sent(CMD_CLOSE_RECEIPT, 0, o, r))]
       IN drv' = IF ~r.success THEN DrvReturn(d, "error", "Failed to close receipt", r)
                 ELSE DrvReturn(d, "ok", "Fiscal receipt printed", r)
    /\ UNCHANGED <<adapterVars, ctl, sideVars>>

(***************************************************************************)
(* The framing codec applied to inputs of bounded length                   *)
(***************************************************************************)
MaxPayload == 2
MaxData == 5

\* closed under XOR, so that frames with a right checksum are among the inputs
SampleBytes == {0, 1, STX, ETX}
PayloadBytes == SampleBytes \cup {255}
CommandBytes == {CMD_OPEN_RECEIPT, ACK_BYTE, NAK_BYTE, STX, ETX, 255}

BytesUpTo(S, n) == UNION {[1..k -> S] : k \in 0..n}

\* byte b with bit k inverted
FlipBit(b, k) == Xor(b, 2 ^ k)

NoParsed == _parse_response(<<>>)

NoCodec ==
    [op |-> "none", command |-> 0, payload |-> <<>>, other |-> <<>>, data |-> <<>>,
     index |-> 0, bit |-> 0, frame |-> <<>>, result |-> NoParsed,
     whole |-> 0, left |-> 0, right |-> 0]

\* the arguments a function of the codec is about to be applied to
CodecInputs ==
    {[NoCodec EXCEPT !.op = "frame_input", !.command = c, !.payload = s] :
        c \in CommandBytes, s \in BytesUpTo(PayloadBytes, MaxPayload)}
    \cup {[NoCodec EXCEPT !.op = "parse_input", !.data = d] :
            d \in BytesUpTo(SampleBytes, MaxData)}
    \cup {[NoCodec EXCEPT !.op = "checksum_input", !.payload = a, !.other = b] :
            a \in BytesUpTo(PayloadBytes, MaxPayload), b \in BytesUpTo(PayloadBytes, MaxPayload)}

\* _parse_response(_frame_message(command, payload))
CodecFrame ==
    /\ codec.op = "frame_input"
    /\ codec' = [codec EXCEPT
                   !.op = "frame",
                   !.frame = _frame_message(codec.command, codec.payload),
                   !.data = _frame_message(codec.command, codec.payload),
                   !.result = _parse_response(_frame_message(codec.command, codec.payload))]
    /\ UNCHANGED exceptCodec

\* a frame whose payload byte number k had bit `bit` inverted on the way
CodecFlip(k, bit) ==
    /\ codec.op = "frame_input"
    /\ k \in 1..Len(codec.payload)
    /\ LET frame == _frame_message(codec.command, codec.payload)
           data == [frame EXCEPT ![2 + k] = FlipBit(@, bit)]
       IN codec' = [codec EXCEPT !.op = "flip", !.index = k, !.bit = bit,
                                 !.frame = frame, !.data = data,
                                 !.result = _parse_response(data)]
    /\ UNCHANGED exceptCodec

\* _parse_response(data) for any bytes
CodecParse ==
    /\ codec.op = "parse_input"
    /\ codec' = [codec EXCEPT !.op = "parse", !.result = _parse_response(codec.data)]
    /\ UNCHANGED exceptCodec

\* _compute_checksum of two byte strings and of their concatenation
CodecChecksum ==
    /\ codec.op = "checksum_input"
    /\ codec' = [codec EXCEPT
                   !.op = "checksum",
                   !.whole = _compute_checksum(codec.payload \o codec.other),
                   !.left = _compute_checksum(codec.payload),
                   !.right = _compute_checksum(codec.other)]
    /\ UNCHANGED exceptCodec

(***************************************************************************)
(* PrinterFactory: the class-level caches _fiscal_instances and            *)
(* _nonfiscal_instances. An adapter object is its position in the heap of  *)
(* the adapters constructed so far; position 0 is None.                    *)
(***************************************************************************)
MaxIds == 1
MaxAdapters == 2
MaxThreads == 2

Ids == 1..MaxIds
Threads == 1..MaxThreads
Classes == {"fiscal", "nonfiscal"}

\* the connection parameters a caller may pass to create_*
Params ==
    {[ip |-> "192.168.1.100", port |-> 9100, timeout |-> 30],
     [ip |-> "192.168.1.101", port |-> 9101, timeout |-> 10]}

NoParams == [ip |-> "", port |-> 0, timeout |-> 0]

NoAdapter == 0

\* mutant: the constructor connects
AdapterConnected(cls, p) ==
    [cls |-> cls, ip |-> p.ip, port |-> p.port, timeout |-> p.timeout, socket |-> "open"]

\* __init__ of either adapter class: the parameters are stored, socket is None
Adapter(cls, p) ==
    [cls |-> cls, ip |-> p.ip, port |-> p.port, timeout |-> p.timeout, socket |-> "None"]

NoInstances == [c \in Classes |-> [i \in Ids |-> NoAdapter]]

IdleThread ==
    [pc |-> "idle", cls |-> "fiscal", id |-> 0, params |-> NoParams,
     adapter |-> NoAdapter, ret |-> NoAdapter, constructed |-> FALSE]

NoFactoryCall ==
    [op |-> "none", cls |-> "fiscal", id |-> 0, params |-> NoParams, ret |-> NoAdapter,
     constructed |-> FALSE, closeErrors |-> {},
     before |-> [instances |-> NoInstances, heap |-> <<>>]]

EmptyFactory ==
    [instances |-> NoInstances, heap |-> <<>>, call |-> NoFactoryCall,
     thr |-> [t \in Threads |-> IdleThread]]

\* the factory call that returned last: its arguments, its return value and
\* the caches and adapters as they were when it was entered
FactoryCall(op, cls, id, p, ret, constructed, errs) ==
    [op |-> op, cls |-> cls, id |-> id, params |-> p, ret |-> ret,
     constructed |-> constructed, closeErrors |-> errs,
     before |-> [instances |-> factory.instances, heap |-> factory.heap]]

\* the adapters a cache holds
Registered(instances) ==
    {instances[c][i] : c \in Classes, i \in Ids} \ {NoAdapter}

\* `if self.socket:` in disconnect(): the adapters whose socket gets closed
WithSocket(heap, objs) == {a \in objs : heap[a].socket # "None"}

\* adapter.disconnect() on each of objs: socket.close() may raise, which
\* disconnect() logs itself, and `finally` sets socket to None either way
Disconnected(heap, objs) ==
    [k \in 1..Len(heap) |->
        IF k \in objs THEN [heap[k] EXCEPT !.socket = "None"] ELSE heap[k]]

\* mutant: the cache is not consulted
create_printer_uncached(cls, id, p) ==
    /\ Len(factory.heap) < MaxAdapters
    /\ factory' = [factory EXCEPT
                     !.heap = Append(@, Adapter(cls, p)),
                     !.instances[cls][id] = Len(factory.heap) + 1,
                     !.call = FactoryCall("create", cls, id, p,
                                          Len(factory.heap) + 1, TRUE, {})]
    /\ UNCHANGED exceptFactory

\* create_fiscal_printer / create_nonfiscal_printer, called by one caller at a time
create_printer(cls, id, p) ==
    /\ IF factory.instances[cls][id] # NoAdapter
       THEN factory' = [factory EXCEPT
                          !.call = FactoryCall("create", cls, id, p,
                                               factory.instances[cls][id], FALSE, {})]
       ELSE /\ Len(factory.heap) < MaxAdapters
            /\ factory' = [factory EXCEPT
                             !.heap = Append(@, Adapter(cls, p)),
                             !.instances[cls][id] = Len(factory.heap) + 1,
                             !.call = FactoryCall("create", cls, id, p,
                                                  Len(factory.heap) + 1, TRUE, {})]
    /\ UNCHANGED exceptFactory

\* get_fiscal_printer / get_nonfiscal_printer
get_printer(cls, id) ==
    /\ factory' = [factory EXCEPT
                     !.call = FactoryCall("get", cls, id, NoParams,
                                          factory.instances[cls][id], FALSE, {})]
    /\ UNCHANGED exceptFactory

\* a caller that was handed adapter a finds it without socket and calls connect()
FactoryConnect(a, co) ==
    /\ a \in Registered(factory.instances)
    /\ factory.heap[a].socket = "None"
    /\ factory' = [factory EXCEPT
                     !.heap[a].socket = IF co = "ok" THEN "open" ELSE "dead",
                     !.call = FactoryCall("connect", factory.heap[a].cls, 0, NoParams,
                                          a, FALSE, {})]
    /\ UNCHANGED exceptFactory

\* mutant: the adapter is disconnected but stays in the cache
disconnect_printer_keeps_entry(cls, id, errs) ==
    /\ errs \subseteq WithSocket(factory.heap, {factory.instances[cls][id]} \ {NoAdapter})
    /\ factory' = [factory EXCEPT
                     !.heap = Disconnected(@, {factory.instances[cls][id]}),
                     !.call = FactoryCall("disconnect", cls, id, NoParams, NoAdapter,
                                          FALSE, errs)]
    /\ UNCHANGED exceptFactory

\* disconnect_fiscal_printer / disconnect_nonfiscal_printer; errs: the adapters
\* whose socket.close() raises inside disconnect()
disconnect_printer(cls, id, errs) ==
    /\ errs \subseteq WithSocket(factory.heap, {factory.instances[cls][id]} \ {NoAdapter})
    /\ factory' = [factory EXCEPT
                     !.heap = Disconnected(@, {factory.instances[cls][id]}),
                     !.instances[cls][id] = NoAdapter,
                     !.call = FactoryCall("disconnect", cls, id, NoParams, NoAdapter,
                                          FALSE, errs)]
    /\ UNCHANGED exceptFactory

\* mutant: the first socket.close() that raises ends the sweep
disconnect_all_aborts_on_error(errs) ==
    /\ errs \subseteq WithSocket(factory.heap, Registered(factory.instances))
    /\ factory' = IF errs # {}
                  THEN [factory EXCEPT
                          !.call = FactoryCall("disconnect_all", "fiscal", 0, NoParams,
                                               NoAdapter, FALSE, errs)]
                  ELSE [factory EXCEPT
                          !.heap = Disconnected(@, Registered(factory.instances)),
                          !.instances = NoInstances,
                          !.call = FactoryCall("disconnect_all", "fiscal", 0, NoParams,
                                               NoAdapter, FALSE, errs)]
    /\ UNCHANGED exceptFactory

\* disconnect_all
disconnect_all(errs) ==
    /\ errs \subseteq WithSocket(factory.heap, Registered(factory.instances))
    /\ factory' = [factory EXCEPT
                     !.heap = Disconnected(@, Registered(factory.instances)),
                     !.instances = NoInstances,
                     !.call = FactoryCall("disconnect_all", "fiscal", 0, NoParams,
                                          NoAdapter, FALSE, errs)]
    /\ UNCHANGED exceptFactory

(***************************************************************************)
(* create_fiscal_printer / create_nonfiscal_printer entered by several     *)
(* threads: the interpreter may switch threads between any two statements  *)
(***************************************************************************)
\* thread t enters create_* for (cls, id)
ThrCall(t, cls, id, p) ==
    /\ factory.thr[t].pc = "idle"
    /\ factory' = [factory EXCEPT
                     !.thr[t] = [IdleThread EXCEPT !.pc = "check", !.cls = cls,
                                                   !.id = id, !.params = p]]
    /\ UNCHANGED exceptFactory

\* lines 44-45 / 77-78: `if key in cls._instances: return cls._instances[key]`
ThrCheck(t) ==
    LET th == factory.thr[t]
    IN /\ th.pc = "check"
       /\ factory' = IF factory.instances[th.cls][th.id] # NoAdapter
                     THEN [factory EXCEPT
                             !.thr[t].pc = "returned",
                             !.thr[t].ret = factory.instances[th.cls][th.id]]
                     ELSE [factory EXCEPT !.thr[t].pc = "construct"]
       /\ UNCHANGED exceptFactory

\* line 48 / 81: `adapter = SF20FiscalPrinterAdapter(ip, port, timeout)`
ThrConstruct(t) ==
    LET th == factory.thr[t]
    IN /\ th.pc = "construct"
       /\ Len(factory.heap) < MaxAdapters
       /\ factory' = [factory EXCEPT
                        !.heap = Append(@, Adapter(th.cls, th.params)),
                        !.thr[t].pc = "store",
                        !.thr[t].adapter = Len(factory.heap) + 1,
                        !.thr[t].constructed = TRUE]
       /\ UNCHANGED exceptFactory

\* lines 49-52 / 82-85: `cls._instances[key] = adapter; return adapter`
ThrStore(t) ==
    LET th == factory.thr[t]
    IN /\ th.pc = "store"
       /\ factory' = [factory EXCEPT
                        !.instances[th.cls][th.id] = th.adapter,
                        !.thr[t].pc = "returned",
                        !.thr[t].ret = th.adapter]
       /\ UNCHANGED exceptFactory

(***************************************************************************)
(* ESCPOSPrinterAdapter (services/nonfiscal_printer_service.py).           *)
(* A text is a sequence of code points; what goes to the socket is a      *)
(* sequence of pieces, each one command or one line of bytes ended by LF.  *)
(***************************************************************************)
MaxWidth == 4
MaxItems == 2
MaxFeed == 2
MaxPart == 4

CMD_INIT == "ESC @"
CMD_CUT == "GS V 0"
CMD_PARTIAL_CUT == "GS V 1"
CMD_OPEN_DRAWER == "ESC p"
CMD_ALIGN_LEFT == "ESC a 0"
CMD_ALIGN_CENTER == "ESC a 1"
CMD_ALIGN_RIGHT == "ESC a 2"
CMD_BOLD_ON == "ESC E 1"
CMD_BOLD_OFF == "ESC E 0"
CMD_SIZE_NORMAL == "ESC ! 0"
CMD_SIZE_DOUBLE == "ESC ! 48"
CMD_UNDERLINE_ON == "ESC - 1"
CMD_UNDERLINE_OFF == "ESC - 0"

Command(c) == [cmd |-> c, text |-> <<>>]
\* bytes + self.LF
Line(bytes) == [cmd |-> "LF", text |-> bytes]

\* str.encode('utf-8') for code points below 2048
RECURSIVE Utf8(_)
Utf8(text) ==
    IF text = <<>> THEN <<>>
    ELSE (IF text[1] < 128 THEN <<text[1]>>
          ELSE <<192 + (text[1] \div 64), 128 + (text[1] % 64)>>) \o Utf8(Tail(text))

\* bytes[:n]
Truncated(bytes, n) == SubSeq(bytes, 1, Min(n, Len(bytes)))

\* a key the order dict does not hold
Missing == <<-1>>

\* 'COMANDA', '???', 'ITEM', 'Order: ', 'Table: ', 'Time: ', 'Items', 'x ', '  '
T_COMANDA == <<67, 79, 77, 65, 78, 68, 65>>
T_UNKNOWN_ORDER == <<63, 63, 63>>
T_ORDER == <<79, 114, 100, 101, 114, 58, 32>>
T_TABLE == <<84, 97, 98, 108, 101, 58, 32>>
T_TIME == <<84, 105, 109, 101, 58, 32>>
T_ITEMS == <<73, 116, 101, 109, 115>>

\* str.ljust(width)
LJust(text, width) ==
    text \o [k \in 1..(IF width > Len(text) THEN width - Len(text) ELSE 0) |-> 32]

\* the decimal digits of a natural number
RECURSIVE Digits(_)
Digits(n) == IF n < 10 THEN <<48 + n>> ELSE Digits(n \div 10) \o <<48 + (n % 10)>>

\* f'{qty:.0f}' for a quantity given in halves: ties go to the even integer
FormatQuantity(halves) ==
    LET q == halves \div 2
    IN Digits(IF halves % 2 = 0 THEN q ELSE IF q % 2 = 0 THEN q ELSE q + 1)

\* _separator_line
_separator_line(width) == [k \in 1..width |-> 45]

\* mutant: the notes come before the item they belong to
RECURSIVE ItemPiecesNotesFirst(_, _)
ItemPiecesNotesFirst(items, width) ==
    IF items = <<>> THEN <<>>
    ELSE LET item == items[1]
             item_text == FormatQuantity(item.quantity) \o <<120, 32>> \o item.description
             notes_indent == <<32, 32>> \o item.notes
         IN (IF item.notes # <<>> THEN <<Line(Truncated(Utf8(notes_indent), width))>>
             ELSE <<>>)
            \o <<Line(Truncated(Utf8(item_text), width))>>
            \o ItemPiecesNotesFirst(Tail(items), width)

\* lines 365-378: the item lines
RECURSIVE ItemPieces(_, _)
ItemPieces(items, width) ==
    IF items = <<>> THEN <<>>
    ELSE LET item == items[1]
             item_text == FormatQuantity(item.quantity) \o <<120, 32>> \o item.description
             notes_indent == <<32, 32>> \o item.notes
         IN <<Line(Truncated(Utf8(item_text), width))>>
            \o (IF item.notes # <<>> THEN <<Line(Truncated(Utf8(notes_indent), width))>>
                ELSE <<>>)
            \o ItemPieces(Tail(items), width)

\* _build_comanda_document
_build_comanda_document(order_data, width) ==
    <<Command(CMD_INIT), Command(CMD_ALIGN_CENTER),
      Command(CMD_SIZE_DOUBLE), Command(CMD_BOLD_ON),
      Line(Utf8(IF order_data.header = Missing THEN T_COMANDA ELSE order_data.header)),
      Command(CMD_BOLD_OFF), Command(CMD_SIZE_NORMAL),
      Line(Utf8(_separator_line(width))),
      Command(CMD_ALIGN_LEFT),
      Line(Utf8(T_ORDER \o (IF order_data.order_number = Missing THEN T_UNKNOWN_ORDER
                            ELSE order_data.order_number)))>>
    \o (IF order_data.table \notin {Missing, <<>>}
        THEN <<Line(Utf8(T_TABLE \o order_data.table))>> ELSE <<>>)
    \o (IF order_data.timestamp \notin {Missing, <<>>}
        THEN <<Line(Utf8(T_TIME \o order_data.timestamp))>> ELSE <<>>)
    \o <<Line(Utf8(_separator_line(width))),
         Command(CMD_BOLD_ON),
         Line(Truncated(Utf8(LJust(T_ITEMS, width)), width)),
         Command(CMD_BOLD_OFF)>>
    \o ItemPieces(order_data.items, width)
    \o <<Line(Utf8(_separator_line(width)))>>
    \o (IF order_data.footer \notin {Missing, <<>>}
        THEN <<Command(CMD_ALIGN_CENTER), Line(Utf8(order_data.footer))>> ELSE <<>>)
    \o <<Line(<<>>), Line(<<>>), Line(<<>>)>>

\* lines 212-235: the document of print_text
TextDocument(text, align, bold, underline) ==
    <<Command(IF align = "center" THEN CMD_ALIGN_CENTER
              ELSE IF align = "right" THEN CMD_ALIGN_RIGHT ELSE CMD_ALIGN_LEFT)>>
    \o (IF bold THEN <<Command(CMD_BOLD_ON)>> ELSE <<>>)
    \o (IF underline THEN <<Command(CMD_UNDERLINE_ON)>> ELSE <<>>)
    \o <<Line(Utf8(text))>>
    \o (IF bold THEN <<Command(CMD_BOLD_OFF)>> ELSE <<>>)
    \o (IF underline THEN <<Command(CMD_UNDERLINE_OFF)>> ELSE <<>>)

(***************************************************************************)
(* The printer behind the socket: the modes its command interpreter holds  *)
(***************************************************************************)
PrinterModes == [bold |-> FALSE, underline |-> FALSE, size |-> "normal"]

Interpret(modes, piece) ==
    CASE piece.cmd = CMD_INIT -> PrinterModes
      [] piece.cmd = CMD_BOLD_ON -> [modes EXCEPT !.bold = TRUE]
      [] piece.cmd = CMD_BOLD_OFF -> [modes EXCEPT !.bold = FALSE]
      [] piece.cmd = CMD_UNDERLINE_ON -> [modes EXCEPT !.underline = TRUE]
      [] piece.cmd = CMD_UNDERLINE_OFF -> [modes EXCEPT !.underline = FALSE]
      [] piece.cmd = CMD_SIZE_DOUBLE -> [modes EXCEPT !.size = "double"]
      [] piece.cmd = CMD_SIZE_NORMAL -> [modes EXCEPT !.size = "normal"]
      [] OTHER -> modes

RECURSIVE Received(_, _)
Received(modes, pieces) ==
    IF pieces = <<>> THEN modes
    ELSE Received(Interpret(modes, pieces[1]), Tail(pieces))

(***************************************************************************)
(* _send_raw: socket.sendall either hands everything to the printer or     *)
(* raises after a part of it went out                                      *)
(***************************************************************************)
\* o.fail: which send of the call raises (0: none); o.part: the pieces of
\* that send the printer still got, MaxPart at most
SendOutcomes(sock, datas) ==
    IF sock = "None" \/ datas = <<>> THEN {[fail |-> 0, part |-> 0]}
    ELSE IF sock = "dead" THEN {[fail |-> 1, part |-> 0]}
    ELSE {[fail |-> 0, part |-> 0]}
         \cup UNION {{[fail |-> i, part |-> k] : k \in 0..Min(MaxPart, Len(datas[i]) - 1)} :
                       i \in 1..Len(datas)}

\* mutant: a send that raised does not stop the sends after it
TransmitAll(datas, o) ==
    [k \in 1..Len(datas) |->
        [data |-> datas[k],
         ok |-> k # o.fail,
         part |-> IF k = o.fail THEN o.part ELSE Len(datas[k])]]

\* the sends a call makes one after the other, up to the first that raises
Transmit(datas, o) ==
    [k \in 1..(IF o.fail = 0 THEN Len(datas) ELSE o.fail) |->
        [data |-> datas[k],
         ok |-> k # o.fail,
         part |-> IF k = o.fail THEN o.part ELSE Len(datas[k])]]

RECURSIVE AfterSends(_, _)
AfterSends(modes, sends) ==
    IF sends = <<>> THEN modes
    ELSE AfterSends(Received(modes, SubSeq(sends[1].data, 1, sends[1].part)), Tail(sends))

(***************************************************************************)
(* ESCPOSPrinterAdapter: the public methods                                *)
(***************************************************************************)
NoOrder ==
    [header |-> Missing, order_number |-> Missing, table |-> Missing,
     timestamp |-> Missing, items |-> <<>>, footer |-> Missing]

NoArgs ==
    [order |-> NoOrder, auto_cut |-> FALSE, open_drawer |-> FALSE, text |-> <<>>,
     align |-> "left", bold |-> FALSE, underline |-> FALSE, partial |-> TRUE, lines |-> 1]

\* `if not self.socket or not self.is_ready`
NotConnected(sock, is_ready) == sock = "None" \/ ~is_ready

\* what a method hands to _send_raw, one entry per call of _send_raw
Job(op, a, width) ==
    CASE op = "print_comanda" ->
           <<_build_comanda_document(a.order, width)>>
           \o (IF a.auto_cut THEN <<<<Command(CMD_PARTIAL_CUT)>>>> ELSE <<>>)
           \o (IF a.open_drawer THEN <<<<Command(CMD_OPEN_DRAWER)>>>> ELSE <<>>)
      [] op = "print_text" -> <<TextDocument(a.text, a.align, a.bold, a.underline)>>
      [] op = "cut_paper" -> <<<<Command(IF a.partial THEN CMD_PARTIAL_CUT ELSE CMD_CUT)>>>>
      [] op = "open_drawer" -> <<<<Command(CMD_OPEN_DRAWER)>>>>
      [] op = "line_feed" -> <<[k \in 1..a.lines |-> Line(<<>>)]>>
      [] OTHER -> <<<<Command(CMD_INIT)>>>>

SuccessMessage(op) ==
    CASE op = "print_comanda" -> "Comanda printed successfully"
      [] op = "print_text" -> "Text printed"
      [] op = "cut_paper" -> "Paper cut"
      [] op = "open_drawer" -> "Drawer pulse sent"
      [] op = "line_feed" -> "Fed lines"
      [] OTHER -> "responsive"

ErrorMessage(op) ==
    CASE op = "print_comanda" -> "Error printing comanda: "
      [] op = "print_text" -> "Error printing text: "
      [] op = "cut_paper" -> "Error cutting paper: "
      [] op = "open_drawer" -> "Error opening drawer: "
      [] op = "line_feed" -> "Error feeding paper: "
      [] OTHER -> "not responsive"

NewEscpos ==
    [socket |-> "None", is_ready |-> FALSE, width |-> MaxWidth, modes |-> PrinterModes,
     connected |-> FALSE,
     call |-> [op |-> "none", args |-> NoArgs, ok |-> FALSE, msg |-> "", sends |-> <<>>,
               before |-> [socket |-> "None", is_ready |-> FALSE, connected |-> FALSE,
                           modes |-> PrinterModes]]]

EscposCalled(op, a, ok, msg, sends) ==
    [op |-> op, args |-> a, ok |-> ok, msg |-> msg, sends |-> sends,
     before |-> [socket |-> escpos.socket, is_ready |-> escpos.is_ready,
                 connected |-> escpos.connected, modes |-> escpos.modes]]

\* print_comanda, print_text, cut_paper, open_drawer, line_feed, get_status
EscposInvoke(op, a, o) ==
    LET datas == IF NotConnected(escpos.socket, escpos.is_ready) THEN <<>>
                 ELSE Job(op, a, escpos.width)
        sends == IF datas = <<>> THEN <<>> ELSE Transmit(datas, o)
    IN /\ o \in SendOutcomes(escpos.socket, datas)
       /\ escpos' = [escpos EXCEPT
                       !.modes = AfterSends(@, sends),
                       !.call = IF datas = <<>>
                                THEN EscposCalled(op, a, FALSE, "Printer not connected", <<>>)
                                ELSE EscposCalled(op, a, o.fail = 0,
                                                  IF o.fail = 0 THEN SuccessMessage(op)
                                                  ELSE ErrorMessage(op), sends)]

EscposCall(op, a, o) ==
    /\ EscposInvoke(op, a, o)
    /\ UNCHANGED exceptEscpos

\* connect(): a new socket replaces self.socket, then CMD_INIT is sent
EscposConnecting(co, o) ==
    LET datas == IF co = "ok" THEN <<<<Command(CMD_INIT)>>>> ELSE <<>>
        sends == IF datas = <<>> THEN <<>> ELSE Transmit(datas, o)
        ok == co = "ok" /\ o.fail = 0
    IN /\ o \in SendOutcomes("open", datas)
       /\ escpos' = [escpos EXCEPT
                       !.socket = IF co = "ok" THEN "open" ELSE "dead",
                       !.is_ready = IF ok THEN TRUE ELSE @,
                       !.connected = IF ok THEN TRUE ELSE @,
                       !.modes = AfterSends(@, sends),
                       !.call = EscposCalled("connect", NoArgs, ok,
                                             CASE ok -> "Connected successfully"
                                               [] co = "timeout" -> "Connection timeout to ESC/POS"
                                               [] co = "refused" -> "Connection error to ESC/POS: "
                                               [] OTHER -> "Unexpected error connecting to ESC/POS: ",
                                             sends)]

EscposConnect(co, o) ==
    /\ EscposConnecting(co, o)
    /\ UNCHANGED exceptEscpos

\* disconnect(); raises: socket.close() raises, so `self.is_ready = False` is skipped
EscposDisconnect(raises) ==
    /\ escpos.socket = "None" => ~raises
    /\ escpos' = [escpos EXCEPT
                    !.socket = "None",
                    !.is_ready = IF escpos.socket = "None" \/ raises THEN @ ELSE FALSE,
                    !.connected = FALSE,
                    !.call = EscposCalled("disconnect", NoArgs, TRUE, "", <<>>)]
    /\ UNCHANGED exceptEscpos

\* the arguments the calls are made with
SampleText == <<72, 105>>
SampleOrders ==
    {[header |-> <<75>>, order_number |-> <<49, 50>>, table |-> <<55>>, timestamp |-> <<>>,
      items |-> <<[quantity |-> 4, description |-> <<80, 105, 122, 122, 97>>,
                   notes |-> <<110, 111>>]>>,
      footer |-> <<232>>]}

EscposArgs(op) ==
    CASE op = "print_comanda" ->
           {[NoArgs EXCEPT !.order = r, !.auto_cut = c, !.open_drawer = d] :
               r \in SampleOrders, c \in BOOLEAN, d \in BOOLEAN}
      [] op = "print_text" ->
           {[NoArgs EXCEPT !.text = SampleText, !.align = al, !.bold = b, !.underline = u] :
               al \in {"left", "center", "right"}, b \in BOOLEAN, u \in BOOLEAN}
      [] op = "cut_paper" -> {[NoArgs EXCEPT !.partial = p] : p \in BOOLEAN}
      [] op = "line_feed" -> {[NoArgs EXCEPT !.lines = n] : n \in 1..MaxFeed}
      [] OTHER -> {NoArgs}

EscposOps == {"print_comanda", "print_text", "cut_paper", "open_drawer", "line_feed",
              "get_status"}

(***************************************************************************)
(* _build_comanda_document as a function of the order and the width.       *)
(***************************************************************************)
\* __init__: width: int = 32
DefaultWidth == 32
Widths == (1..MaxWidth) \cup {DefaultWidth}

\* items of an order: quantity 1 or 2.5, a description with a two-byte
\* character, with and without notes
SampleItems ==
    [quantity : {2, 5}, description : {<<80, 233>>}, notes : {<<>>, <<110, 111>>}]

ItemLists == UNION {[1..n -> SampleItems] : n \in 0..MaxItems}

ComandaInputs ==
    [op : {"comanda_input"},
     order_data : [header : {Missing, <<75>>},
                   order_number : {Missing, <<49, 50>>},
                   table : {Missing, <<>>, <<55>>},
                   timestamp : {Missing, <<57>>},
                   footer : {Missing, <<>>, <<232>>},
                   items : ItemLists],
     width : Widths,
     document : {<<>>}]

ComandaBuild ==
    /\ pure.op = "comanda_input"
    /\ pure' = [pure EXCEPT
                  !.op = "comanda",
                  !.document = _build_comanda_document(pure.order_data, pure.width)]
    /\ UNCHANGED exceptPure


(***************************************************************************)
(* The payloads of SF20Driver.sell_item and apply_payment                  *)
(* (drivers/sf20_tcp.py) and the cents of SF20FiscalPrinterAdapter.add_item.*)
(* A decimal number sign * m / 10^k stands for the float nearest to it.    *)
(***************************************************************************)
Decimal(sign, m, k) == [sign |-> sign, m |-> m, k |-> k]
\* a key the payload does not hold
NoAmount == Decimal(0, 0, 0)
NoDepartment == -1
NoMethod == ""

RECURSIVE Pow(_, _)
Pow(b, n) == IF n = 0 THEN 1 ELSE b * Pow(b, n - 1)

\* b^n mod d
RECURSIVE PowMod(_, _, _)
PowMod(b, n, d) == IF n = 0 THEN 1 % d ELSE (b * PowMod(b, n - 1, d)) % d

\* the binary exponent of m / d: the largest e with 2^e <= m / d
RECURSIVE Log2Floor(_, _)
Log2Floor(m, d) ==
    IF m >= 2 * d THEN 1 + Log2Floor(m, 2 * d)
    ELSE IF m < d THEN Log2Floor(2 * m, d) - 1
    ELSE 0

\* int(x * scale) for the float x nearest to m / 10^k, in IEEE 754 double
\* arithmetic: x is m / 10^k rounded to 53 bits, the product is rounded to 53
\* bits again, and int() drops the fraction.
\*   r        the remainder that rounding m / 10^k to 53 bits cut off,
\*            in units of 2^-p / d
\*   below    x is below m / 10^k
\*   lost     the product is more than half a unit in the last place below
\*            the integer m * scale / 10^k, so it rounds to the float before it
MagnitudeTimes(m, k, scale) ==
    LET d == Pow(10, k)
        ex == Log2Floor(m, d)
        p == 52 - ex
        r == ((m % d) * PowMod(2, p, d)) % d
        whole == (m * scale) \div d
        e == Log2Floor(whole, 1)
        below == r # 0 /\ 2 * r < d
        lost == IF whole = Pow(2, e)
                THEN 4 * scale * r > d * Pow(2, e - ex)
                ELSE 2 * scale * r > d * Pow(2, e - ex)
    IN IF m = 0 THEN 0
       ELSE IF (m * scale) % d # 0 THEN whole
       ELSE IF below /\ lost THEN whole - 1
       ELSE whole

IntTimes(x, scale) == x.sign * MagnitudeTimes(x.m, x.k, scale)

\* mutant: struct.pack('<I', v)
Pack32LittleEndian(v) ==
    <<v % 256, (v \div 256) % 256, (v \div 65536) % 256, (v \div 16777216) % 256>>

\* struct.pack('>I', v)
Pack32(v) ==
    <<(v \div 16777216) % 256, (v \div 65536) % 256, (v \div 256) % 256, v % 256>>

\* str.encode('ascii', errors='replace')
AsciiReplace(text) == [i \in 1..Len(text) |-> IF text[i] < 128 THEN text[i] ELSE 63]

\* payment_types
payment_types(method) ==
    CASE method = "cash" -> 0
      [] method = "card" -> 1
      [] method = "check" -> 2
      [] method = "ticket" -> 3
      [] method = "other" -> 4
      [] OTHER -> 0

NotSent == [raised |-> TRUE, command |-> 0, data |-> <<>>]

\* SF20Driver.sell_item up to its _send_command call
sell_item(payload) ==
    LET description == LJust(Truncated(payload.description, 32), 32)
        quantity == IF payload.quantity = NoAmount THEN 1000
                    ELSE IntTimes(payload.quantity, 1000)
        price == IF payload.price = NoAmount THEN 0 ELSE IntTimes(payload.price, 100)
        department == IF payload.department = NoDepartment THEN 1 ELSE payload.department
        vat_code == IF payload.vat_rate = Missing THEN <<50, 50>> ELSE payload.vat_rate
    IN IF quantity < 0 \/ price < 0 \/ department \notin 0..255 THEN NotSent
       ELSE [raised |-> FALSE,
             command |-> CMD_SELL_ITEM,
             data |-> AsciiReplace(description) \o Pack32(quantity) \o Pack32(price)
                        \o <<department>> \o LJust(Truncated(vat_code, 2), 2)]

\* SF20Driver.apply_payment up to its _send_command call
apply_payment(payload) ==
    LET amount == IF payload.amount = NoAmount THEN 0 ELSE IntTimes(payload.amount, 100)
        method == IF payload.method = NoMethod THEN "cash" ELSE payload.method
        payment_code == payment_types(method)
    IN IF amount < 0 THEN NotSent
       ELSE [raised |-> FALSE,
             command |-> CMD_PAYMENT,
             data |-> Pack32(amount) \o <<payment_code>>]

\* SF20FiscalPrinterAdapter.add_item, lines 180-182
add_item_cents(quantity, unit_price) ==
    [quantity_cents |-> IntTimes(quantity, 100), price_cents |-> IntTimes(unit_price, 100)]

\* 2, 2.50, 0.29, 0.129, 1.001, 1.15 and -1.00
SampleAmounts ==
    {Decimal(1, 2, 0), Decimal(1, 250, 2), Decimal(1, 29, 2), Decimal(1, 129, 3),
     Decimal(1, 1001, 3), Decimal(1, 115, 2), Decimal(-1, 100, 2)}

\* '', 'Ab', 'Caffè' and a description of 33 characters
SampleDescriptions ==
    {<<>>, <<65, 98>>, <<67, 97, 102, 102, 232>>, [i \in 1..33 |-> 64 + (i % 26)]}

\* '22' by default, '4', '10', '220'
SampleVat == {Missing, <<52>>, <<49, 48>>, <<50, 50, 48>>}

SampleMethods == {NoMethod, "cash", "card", "check", "ticket", "other", "voucher"}

PayloadInputs ==
    [op : {"sell_item_input"},
     description : SampleDescriptions,
     quantity : SampleAmounts \cup {NoAmount},
     price : SampleAmounts \cup {NoAmount},
     department : {NoDepartment, 2, 300},
     vat_rate : SampleVat,
     amount : {NoAmount},
     method : {NoMethod}]
    \cup
    [op : {"apply_payment_input", "add_item_input"},
     description : {<<>>},
     quantity : SampleAmounts \cup {NoAmount},
     price : {NoAmount},
     department : {NoDepartment},
     vat_rate : {Missing},
     amount : SampleAmounts \cup {NoAmount},
     method : SampleMethods]

PureSellItem ==
    /\ pure.op = "sell_item_input"
    /\ pure' = [op |-> "sell_item", input |-> pure, sent |-> sell_item(pure)]
    /\ UNCHANGED exceptPure

PureApplyPayment ==
    /\ pure.op = "apply_payment_input"
    /\ pure' = [op |-> "apply_payment", input |-> pure, sent |-> apply_payment(pure)]
    /\ UNCHANGED exceptPure

PureAddItem ==
    /\ pure.op = "add_item_input"
    /\ pure.quantity # NoAmount
    /\ pure.amount # NoAmount
    /\ pure' = [op |-> "add_item", input |-> pure,
                cents |-> add_item_cents(pure.quantity, pure.amount)]
    /\ UNCHANGED exceptPure

(***************************************************************************)
(* HwProxyController.printer_action (controllers/hw_proxy.py), the driver  *)
(* registry (drivers/__init__.py) and handle_action of BaseDriver,         *)
(* EscposTCPDriver, EpsonAdapter and SF20Driver.  A payload is "dict" when *)
(* the method can read it and "malformed" when the method's first use of   *)
(* it raises (a payload that is no dict, a text that is no string).        *)
(***************************************************************************)
CMD_STATUS == 53

DriverClasses == {"BaseDriver", "EscposTCPDriver", "EpsonAdapter", "SF20Driver"}

\* drivers/__init__.py: DRIVERS.get(driver_type)
DRIVERS(driver_type) ==
    CASE driver_type = "escpos_tcp" -> "EscposTCPDriver"
      [] driver_type = "epson_epos" -> "EpsonAdapter"
      [] driver_type = "sf20_tcp" -> "SF20Driver"
      [] OTHER -> "none"

\* mutant: every other action name prints
HandlerOrPrint(cls, action) ==
    IF action = "cashbox" THEN "open_cashbox"
    ELSE IF cls = "SF20Driver"
            /\ action \in {"open_receipt", "sell_item", "apply_payment",
                           "close_receipt", "status", "cancel_receipt"}
    THEN action
    ELSE "print_receipt"

\* the method an action name is routed to: action_map of SF20Driver, the
\* if/elif of BaseDriver, which the other two drivers inherit
HandlerOf(cls, action) ==
    IF action = "print_receipt" THEN "print_receipt"
    ELSE IF action = "cashbox" THEN "open_cashbox"
    ELSE IF cls = "SF20Driver"
            /\ action \in {"open_receipt", "sell_item", "apply_payment",
                           "close_receipt", "status", "cancel_receipt"}
    THEN action
    ELSE "none"

NoException == [type |-> "none", text |-> ""]
Exception(type, text) == [type |-> type, text |-> text]

\* the keys of a returned dict; "absent" for a key the dict does not hold
Returned(status, success, result, canRetry, info) ==
    [status |-> status, success |-> success, result |-> result,
     canRetry |-> canRetry, info |-> info]
NoReturn == Returned("absent", "absent", "absent", "absent", "")

\* what a method did: the exception it raised or the dict it returned, the
\* SF20 commands it sent, the direct connections it opened, the actions it
\* handed to the IoT proxy
Effect(exc, ret, sent, direct, proxy) ==
    [exc |-> exc, ret |-> ret, ran |-> <<>>, sent |-> sent, direct |-> direct,
     proxy |-> proxy]

\* what the environment does to one call: the IoT proxy raises, returns
\* something that is no dict, or a dict whose 'result' is truthy, falsy or
\* missing; fail is the number of the wire operation that fails (0: none)
HwOutcomes ==
    [proxy : {"raise", "not_a_dict", "truthy", "falsy", "no_result"}, fail : 0..2]

\* mutant: the IoT box is used whenever the printer record asks for it
should_use_iot_flag_only(printer, iot_proxy) == printer.use_iot_device

\* _should_use_iot
_should_use_iot(printer, iot_proxy) == printer.use_iot_device /\ iot_proxy

\* _print_via_iot (escpos_tcp.py 79-98, epson_adapter.py 194-213)
_print_via_iot(o) ==
    Effect(NoException,
           IF o.proxy \in {"raise", "not_a_dict"}
           THEN Returned("error", "absent", "absent", "true", "IoT proxy error: ")
           ELSE Returned(IF o.proxy = "truthy" THEN "ok" ELSE "error",
                         "absent", "absent", "absent", "Printed via IoT"),
           <<>>, 0, <<"print_receipt">>)

\* the IoT branch of open_cashbox (escpos_tcp.py 205-220, epson_adapter.py 279-294)
CashboxViaIot(o) ==
    Effect(NoException,
           IF o.proxy \in {"raise", "not_a_dict"}
           THEN Returned("absent", "absent", "false", "absent", "iot_error: ")
           ELSE Returned("absent", "absent",
                         IF o.proxy = "truthy" THEN "true" ELSE "false",
                         "absent", "via_iot"),
           <<>>, 0, <<"cashbox">>)

\* EscposTCPDriver._print_direct: the connection, then the print job
_print_direct(payload, o) ==
    Effect(NoException,
           IF o.fail = 1
           THEN Returned("error", "absent", "absent", "true", "Connection failed: ")
           ELSE IF payload = "malformed"
           THEN Returned("error", "absent", "absent", "true", "Print failed: ")
           ELSE IF o.fail = 2
           THEN Returned("error", "absent", "absent", "true", "Printer timeout")
           ELSE Returned("ok", "absent", "absent", "absent", "Receipt printed successfully"),
           <<>>, 1, <<>>)

EscposMethod(method, payload, printer, iot_proxy, o) ==
    IF method = "print_receipt"
    THEN IF _should_use_iot(printer, iot_proxy) THEN _print_via_iot(o)
         ELSE _print_direct(payload, o)
    ELSE IF _should_use_iot(printer, iot_proxy) THEN CashboxViaIot(o)
    ELSE Effect(NoException,
                IF o.fail = 1
                THEN Returned("absent", "absent", "false", "absent", "connection_failed: ")
                ELSE IF o.fail = 2
                THEN Returned("absent", "absent", "false", "absent", "drawer_error: ")
                ELSE Returned("absent", "absent", "true", "absent", "drawer_opened"),
                <<>>, 1, <<>>)

\* EpsonAdapter._print_text / _print_image after _send_epos_request
EpsonRequest(o, done) ==
    IF o.fail = 0 THEN Returned("ok", "absent", "absent", "absent", done)
    ELSE Returned("error", "absent", "absent",
                  IF o.fail = 1 THEN "true" ELSE "false",
                  IF o.fail = 1 THEN "timeout" ELSE "http_error: ")

EpsonMethod(method, payload, printer, iot_proxy, o) ==
    IF method = "print_receipt"
    THEN IF _should_use_iot(printer, iot_proxy) THEN _print_via_iot(o)
         ELSE IF payload = "malformed"
         THEN Effect(Exception("AttributeError", "payload"), NoReturn, <<>>, 0, <<>>)
         ELSE Effect(NoException, EpsonRequest(o, "Text printed via ePOS"), <<>>, 1, <<>>)
    ELSE IF _should_use_iot(printer, iot_proxy) THEN CashboxViaIot(o)
    ELSE Effect(NoException,
                IF o.fail = 0
                THEN Returned("absent", "absent", "true", "absent", "drawer_opened_epos")
                ELSE Returned("absent", "absent", "false", "absent",
                              IF o.fail = 1 THEN "timeout" ELSE "http_error: "),
                <<>>, 1, <<>>)

\* the command of an SF20Driver method that sends exactly one
SF20Command(method) ==
    CASE method = "open_receipt" -> CMD_OPEN_RECEIPT
      [] method = "sell_item" -> CMD_SELL_ITEM
      [] method = "apply_payment" -> CMD_PAYMENT
      [] method = "close_receipt" -> CMD_CLOSE_RECEIPT
      [] method = "status" -> CMD_STATUS
      [] method = "cancel_receipt" -> CMD_CANCEL

\* SF20Driver methods; print_receipt is the one of a payload without lines
\* and payments: open_receipt, then close_receipt
SF20Method(method, payload, o) ==
    IF method = "open_cashbox"
    THEN Effect(NoException,
                Returned("absent", "absent", "true", "absent", "drawer_opens_on_receipt_close"),
                <<>>, 0, <<>>)
    ELSE IF payload = "malformed"
            /\ method \in {"print_receipt", "open_receipt", "sell_item", "apply_payment"}
    THEN Effect(Exception("AttributeError", "payload"), NoReturn, <<>>, 0, <<>>)
    ELSE IF method = "print_receipt"
    THEN IF o.fail = 1
         THEN Effect(NoException,
                     Returned("error", "absent", "absent", "absent", "Failed to open receipt"),
                     <<CMD_OPEN_RECEIPT>>, 1, <<>>)
         ELSE Effect(NoException,
                     IF o.fail = 2
                     THEN Returned("error", "absent", "absent", "absent",
                                   "Failed to close receipt")
                     ELSE Returned("ok", "absent", "absent", "absent",
                                   "Fiscal receipt printed"),
                     <<CMD_OPEN_RECEIPT, CMD_CLOSE_RECEIPT>>, 2, <<>>)
    ELSE Effect(NoException,
                Returned("absent", IF o.fail = 1 THEN "false" ELSE "true", "absent",
                         IF o.fail = 1 THEN "true" ELSE "absent", ""),
                <<SF20Command(method)>>, 1, <<>>)

\* BaseDriver.print_receipt and open_cashbox
BaseMethod(method) ==
    IF method = "print_receipt"
    THEN Effect(Exception("NotImplementedError", ""), NoReturn, <<>>, 0, <<>>)
    ELSE Effect(NoException, Returned("absent", "absent", "true", "absent", "no_op"),
                <<>>, 0, <<>>)

\* handle_action (base.py 11-17, sf20_tcp.py 181-197)
handle_action(cls, action, payload, printer, iot_proxy, o) ==
    LET method == HandlerOf(cls, action)
        did == CASE cls = "SF20Driver" -> SF20Method(method, payload, o)
                 [] cls = "EscposTCPDriver" ->
                        EscposMethod(method, payload, printer, iot_proxy, o)
                 [] cls = "EpsonAdapter" ->
                        EpsonMethod(method, payload, printer, iot_proxy, o)
                 [] OTHER -> BaseMethod(method)
    IN IF method = "none"
       THEN Effect(Exception("NotImplementedError", action), NoReturn, <<>>, 0, <<>>)
       ELSE [did EXCEPT !.ran = <<method>>]

NoEffect == Effect(NoException, NoReturn, <<>>, 0, <<>>)

\* the dict printer_action returns; error is the fixed part of the error
\* string and text the exception text that follows it
Response(result, error, text, driver_result) ==
    [result |-> result, error |-> error, text |-> text, driver_result |-> driver_result]
NoResponse == Response(FALSE, "", "", NoReturn)

\* mutant: the access check comes before the lookup of the printer
printer_action_access_first(data, printer, user, o) ==
    LET cls == DRIVERS(printer.printer_type)
        did == handle_action(cls, data.action, data.payload, printer, FALSE, o)
        allowed == user.internal \/ user.pos_user \/ user.pos_manager
    IN IF data.printer_id = 0 \/ data.action = ""
       THEN [cls |-> "none", did |-> NoEffect,
             response |-> Response(FALSE, "invalid_request", "", NoReturn)]
       ELSE IF ~allowed
       THEN [cls |-> "none", did |-> NoEffect,
             response |-> Response(FALSE, "access_denied", "", NoReturn)]
       ELSE IF ~printer.exists
       THEN [cls |-> "none", did |-> NoEffect,
             response |-> Response(FALSE, "printer_not_found", "", NoReturn)]
       ELSE IF cls = "none"
       THEN [cls |-> "none", did |-> NoEffect,
             response |-> Response(FALSE, "no_driver: ", printer.printer_type, NoReturn)]
       ELSE [cls |-> cls, did |-> did,
             response |->
                IF did.exc.type = "none" THEN Response(TRUE, "", "", did.ret)
                ELSE IF did.exc.type = "NotImplementedError"
                THEN Response(FALSE, "unimplemented_action: ", did.exc.text, NoReturn)
                ELSE Response(FALSE, "", did.exc.text, NoReturn)]

\* HwProxyController.printer_action; an absent or falsy printer_id is 0, an
\* absent action "", an absent payload the empty dict; get_driver gets no
\* iot_proxy
printer_action(data, printer, user, o) ==
    LET cls == DRIVERS(printer.printer_type)
        did == handle_action(cls, data.action, data.payload, printer, FALSE, o)
        allowed == user.internal \/ user.pos_user \/ user.pos_manager
    IN IF data.printer_id = 0 \/ data.action = ""
       THEN [cls |-> "none", did |-> NoEffect,
             response |-> Response(FALSE, "invalid_request", "", NoReturn)]
       ELSE IF ~printer.exists
       THEN [cls |-> "none", did |-> NoEffect,
             response |-> Response(FALSE, "printer_not_found", "", NoReturn)]
       ELSE IF ~allowed
       THEN [cls |-> "none", did |-> NoEffect,
             response |-> Response(FALSE, "access_denied", "", NoReturn)]
       ELSE IF cls = "none"
       THEN [cls |-> "none", did |-> NoEffect,
             response |-> Response(FALSE, "no_driver: ", printer.printer_type, NoReturn)]
       ELSE [cls |-> cls, did |-> did,
             response |->
                IF did.exc.type = "none" THEN Response(TRUE, "", "", did.ret)
                ELSE IF did.exc.type = "NotImplementedError"
                THEN Response(FALSE, "unimplemented_action: ", did.exc.text, NoReturn)
                ELSE Response(FALSE, "", did.exc.text, NoReturn)]

ActionNames ==
    {"print_receipt", "cashbox", "open_receipt", "sell_item", "apply_payment",
     "close_receipt", "status", "cancel_receipt", "cut_paper", "x_report"}

Requests == [printer_id : 0..1, action : ActionNames \cup {""}, payload : {"dict", "malformed"}]

\* a pos.printer record; printer_type "iot" is the default of get_driver
PrinterRecords ==
    [exists : BOOLEAN, printer_type : {"escpos_tcp", "epson_epos", "sf20_tcp", "iot"},
     use_iot_device : BOOLEAN]

Users == [internal : BOOLEAN, pos_user : BOOLEAN, pos_manager : BOOLEAN]
NoUser == [internal |-> FALSE, pos_user |-> FALSE, pos_manager |-> FALSE]

IdleHw ==
    [op |-> "none", data |-> [printer_id |-> 0, action |-> "", payload |-> "dict"],
     printer |-> [exists |-> FALSE, printer_type |-> "iot", use_iot_device |-> FALSE],
     user |-> NoUser, iot_proxy |-> FALSE, o |-> [proxy |-> "raise", fail |-> 0],
     cls |-> "none", did |-> NoEffect, response |-> NoResponse]

\* the calls: requests to /hw_proxy/printer_action, and handle_action on a
\* driver constructed for an existing printer with or without an iot_proxy
HwInputs ==
    {[IdleHw EXCEPT !.op = "printer_action_input", !.data = data, !.printer = printer,
                    !.user = user, !.o = o] :
        data \in Requests, printer \in PrinterRecords, user \in Users,
        o \in {x \in HwOutcomes : x.proxy = "raise"}}
    \cup
    {[IdleHw EXCEPT !.op = "handle_action_input", !.data = data, !.printer = printer,
                    !.iot_proxy = iot_proxy, !.o = o, !.cls = cls] :
        data \in {d \in Requests : d.printer_id = 1 /\ d.action # ""},
        printer \in {p \in PrinterRecords : p.exists /\ p.printer_type = "iot"},
        iot_proxy \in BOOLEAN, o \in HwOutcomes, cls \in DriverClasses}

\* one request to /hw_proxy/printer_action
HwPrinterAction ==
    /\ hw.op = "printer_action_input"
    /\ LET r == printer_action(hw.data, hw.printer, hw.user, hw.o)
       IN hw' = [hw EXCEPT !.op = "printer_action", !.cls = r.cls, !.did = r.did,
                           !.response = r.response]
    /\ UNCHANGED exceptHw

\* handle_action called on a driver
HwHandleAction ==
    /\ hw.op = "handle_action_input"
    /\ hw' = [hw EXCEPT !.op = "handle_action",
                        !.did = handle_action(hw.cls, hw.data.action, hw.data.payload,
                                              hw.printer, hw.iot_proxy, hw.o)]
    /\ UNCHANGED exceptHw

NoPure == [op |-> "none"]

(***************************************************************************)
(* PosOrderHooks.on_order_completed (hooks.py), one adapter call per step. *)
(* The adapters are the ones PrinterFactory caches for the POS config.     *)
(***************************************************************************)
\* fiscal / comanda: how _print_fiscal_receipt / _print_comanda ended
\* ("none": not called); raised: an exception left on_order_completed
MaxHookLines == 1

IdleHook ==
    [pc |-> "idle", fiscal_enabled |-> FALSE, nonfiscal_enabled |-> FALSE, valid |-> TRUE,
     items |-> <<>>, payments |-> <<>>, i |-> 0, auto_cut |-> FALSE,
     auto_open_drawer |-> FALSE, fiscal |-> "none", comanda |-> "none",
     raised |-> FALSE, returned |-> FALSE]

\* the orders the hook is called with: found: _get_pos_config finds a config;
\* valid: the quantities and amounts of the order convert with float()
HookOrders ==
    [pos_config : {"found"}, fiscal_enabled : BOOLEAN, nonfiscal_enabled : BOOLEAN,
     valid : BOOLEAN, items : 0..MaxHookLines, payments : 0..MaxHookLines,
     auto_cut : BOOLEAN, auto_open_drawer : {FALSE}]
    \cup [pos_config : {"none", "raises"}, fiscal_enabled : {FALSE},
          nonfiscal_enabled : {FALSE}, valid : {TRUE}, items : {0}, payments : {0},
          auto_cut : {FALSE}, auto_open_drawer : {FALSE}]

\* on_order_completed returns None; what stays is how the two prints ended
HookReturn(h) ==
    [IdleHook EXCEPT !.fiscal_enabled = h.fiscal_enabled,
                     !.nonfiscal_enabled = h.nonfiscal_enabled,
                     !.fiscal = h.fiscal, !.comanda = h.comanda,
                     !.raised = h.raised, !.returned = TRUE]

\* lines 113-132 of _print_comanda, up to the first call of the adapter
EnterComanda(h) ==
    IF escpos.socket = "None" THEN [h EXCEPT !.pc = "c_connect"]
    ELSE IF ~h.valid THEN HookReturn([h EXCEPT !.comanda = "raised"])
    ELSE [h EXCEPT !.pc = "c_print"]

\* mutant: the comanda is printed only after a fiscal receipt that went through
AfterFiscalOnlyOnSuccess(h, outcome) ==
    LET g == [h EXCEPT !.fiscal = outcome, !.i = 0]
    IN IF g.nonfiscal_enabled /\ outcome = "printed" THEN EnterComanda(g) ELSE HookReturn(g)

\* lines 47-49: _print_fiscal_receipt has returned, whatever it did
AfterFiscal(h, outcome) ==
    LET g == [h EXCEPT !.fiscal = outcome, !.i = 0]
    IN IF g.nonfiscal_enabled THEN EnterComanda(g) ELSE HookReturn(g)

\* lines 74-78: _build_receipt_data, then open_receipt is next
BuildReceipt(h) ==
    IF ~h.valid THEN AfterFiscal(h, "raised") ELSE [h EXCEPT !.pc = "f_open"]

\* where _print_fiscal_receipt stands once entry i - 1 of phase pc is done
HookAdvance(h, pc, i) ==
    IF pc = "f_items" /\ i <= Len(h.items) THEN [h EXCEPT !.pc = "f_items", !.i = i]
    ELSE IF pc = "f_items" /\ Len(h.payments) >= 1 THEN [h EXCEPT !.pc = "f_payments", !.i = 1]
    ELSE IF pc = "f_payments" /\ i <= Len(h.payments) THEN [h EXCEPT !.pc = "f_payments", !.i = i]
    ELSE [h EXCEPT !.pc = "f_close", !.i = 0]

\* lines 36-49 and 57-72: the config is read and the fiscal adapter looked up
HookBegin(order) ==
    /\ hook.pc = "idle"
    /\ hook' =
         IF order.pos_config # "found" THEN HookReturn(IdleHook)
         ELSE LET h == [IdleHook EXCEPT
                          !.fiscal_enabled = order.fiscal_enabled,
                          !.nonfiscal_enabled = order.nonfiscal_enabled,
                          !.valid = order.valid,
                          !.items = Entries(order.items),
                          !.payments = Entries(order.payments),
                          !.auto_cut = order.auto_cut,
                          !.auto_open_drawer = order.auto_open_drawer]
              IN IF h.fiscal_enabled
                 THEN IF socket = "None" THEN [h EXCEPT !.pc = "f_connect"]
                      ELSE BuildReceipt(h)
                 ELSE IF h.nonfiscal_enabled THEN EnterComanda(h)
                 ELSE HookReturn(h)
    /\ UNCHANGED exceptHook

\* lines 68-72
HookFiscalConnect(co) ==
    /\ hook.pc = "f_connect"
    /\ AdapterConnect(co)
    /\ hook' = IF co = "ok" THEN BuildReceipt(hook) ELSE AfterFiscal(hook, "connect_failed")
    /\ UNCHANGED exceptHookFiscal

\* lines 78-81
HookOpen(o) ==
    /\ hook.pc = "f_open"
    /\ AdapterCall("open_receipt", 0, o)
    /\ hook' = IF ~last'.ret.ok THEN AfterFiscal(hook, "open_failed")
               ELSE HookAdvance(hook, "f_items", 1)
    /\ UNCHANGED exceptHookFiscal

\* lines 84-90: what add_item returns is not looked at
HookItem(o) ==
    /\ hook.pc = "f_items"
    /\ AdapterCall("add_item", hook.items[hook.i], o)
    /\ hook' = HookAdvance(hook, "f_items", hook.i + 1)
    /\ UNCHANGED exceptHookFiscal

\* lines 93-94: what process_payment returns is not looked at
HookPayment(o) ==
    /\ hook.pc = "f_payments"
    /\ AdapterCall("process_payment", hook.payments[hook.i], o)
    /\ hook' = HookAdvance(hook, "f_payments", hook.i + 1)
    /\ UNCHANGED exceptHookFiscal

\* lines 97-101: a failed close_receipt is logged
HookClose(o) ==
    /\ hook.pc = "f_close"
    /\ AdapterCall("close_receipt", 0, o)
    /\ hook' = AfterFiscal(hook, IF last'.ret.ok THEN "printed" ELSE "close_failed")
    /\ UNCHANGED exceptHookFiscal

\* lines 128-132
HookComandaConnect(co, o) ==
    /\ hook.pc = "c_connect"
    /\ EscposConnecting(co, o)
    /\ hook' = IF ~escpos'.call.ok THEN HookReturn([hook EXCEPT !.comanda = "connect_failed"])
               ELSE IF ~hook.valid THEN HookReturn([hook EXCEPT !.comanda = "raised"])
               ELSE [hook EXCEPT !.pc = "c_print"]
    /\ UNCHANGED exceptHookEscpos

\* lines 135-147
HookComanda(order, o) ==
    /\ hook.pc = "c_print"
    /\ EscposInvoke("print_comanda",
                    [NoArgs EXCEPT !.order = order, !.auto_cut = hook.auto_cut,
                                   !.open_drawer = hook.auto_open_drawer], o)
    /\ hook' = HookReturn([hook EXCEPT
                             !.comanda = IF escpos'.call.ok THEN "printed" ELSE "failed"])
    /\ UNCHANGED exceptHookEscpos

(***************************************************************************)
(* The connection of one driver call: SF20Driver._send_command and the     *)
(* direct branches of EscposTCPDriver, as the calls made on the socket or  *)
(* the escpos printer object the call creates                              *)
(***************************************************************************)
MaxChunks == 3

\* the ways a stream delivers data in at most n chunks
RECURSIVE Splits(_, _)
Splits(data, n) ==
    IF n <= 1 \/ Len(data) <= 1 THEN {<<data>>}
    ELSE {<<data>>}
         \cup UNION {{<<SubSeq(data, 1, i)>> \o rest :
                        rest \in Splits(SubSeq(data, i + 1, Len(data)), n - 1)} :
                     i \in 1..(Len(data) - 1)}

\* lines 142-149: one recv() per turn of the loop
RECURSIVE RecvCalls(_)
RecvCalls(chunks) ==
    IF chunks = <<>> THEN <<"recv">>
    ELSE IF Contains(Head(chunks), <<ETX>>) THEN <<"recv">>
    ELSE <<"recv">> \o RecvCalls(Tail(chunks))

\* mutant: the socket is closed where the try block ends, not in `finally`
send_command_calls_close_in_try(o) ==
    <<"socket", "settimeout", "connect">>
    \o (IF o.connect # "ok" THEN <<>>
        ELSE <<"sendall">>
             \o (IF o.send # "ok" THEN <<>>
                 ELSE RecvCalls(o.chunks)
                      \o (IF DrvReceiveLoop(<<>>, o.chunks, o.end).exc = "none"
                          THEN <<"close">> ELSE <<>>)))

\* lines 131-179: what _send_command calls on the socket it creates
send_command_calls(o) ==
    <<"socket", "settimeout", "connect">>
    \o (IF o.connect # "ok" THEN <<>>
        ELSE <<"sendall">> \o (IF o.send # "ok" THEN <<>> ELSE RecvCalls(o.chunks)))
    \o <<"close">>

\* exc: the exception that leaves the call ("none": it returns)
WireResult(calls, ret, exc) == [calls |-> calls, ret |-> ret, exc |-> exc]

\* _send_command: `except Exception: pass` around sock.close()
send_command(o) == WireResult(send_command_calls(o), DrvSendCommand(o), "none")

\* the printer call the payload leads to; b64decode raises before any call
ContentCall(payload) ==
    CASE payload = "receipt" -> <<"image">>
      [] payload = "raw" -> <<"_raw">>
      [] payload \in {"bad_receipt", "bad_raw"} -> <<>>
      [] OTHER -> <<"text">>

ContentDone(payload, o) == ContentCall(payload) # <<>> /\ o.content = "ok"

\* escpos_tcp.py 100-173: what _print_direct calls on the printer object
print_direct_calls(payload, o) ==
    IF o.factory # "ok" THEN <<>>
    ELSE <<"factory">> \o ContentCall(payload)
         \o (IF ContentDone(payload, o) THEN <<"cut">> ELSE <<>>)
         \o <<"close">>

print_direct(payload, o) ==
    WireResult(print_direct_calls(payload, o),
               IF o.factory = "ok" /\ ContentDone(payload, o) /\ o.cut = "ok" THEN "ok"
               ELSE "error",
               "none")

\* escpos_tcp.py 222-250: the direct branch of open_cashbox
open_cashbox_calls(o) ==
    IF o.factory # "ok" THEN <<>> ELSE <<"factory", "cashdraw", "close">>

open_cashbox(o) ==
    WireResult(open_cashbox_calls(o),
               IF o.factory = "ok" /\ o.content = "ok" THEN "true" ELSE "false", "none")

\* the replies of the printer: those of DrvOutcomes, and every valid frame
\* with a payload of at most MaxPayload bytes in every split
FramePayloads == BytesUpTo({0, ETX, 49}, MaxPayload)

WireOutcomes(cmd) ==
    {[connect |-> o.connect, send |-> o.send, chunks |-> o.chunks, end |-> o.end,
      frame |-> <<>>, close |-> c] : o \in DrvOutcomes(cmd), c \in {"ok", "error"}}
    \cup UNION {{[connect |-> "ok", send |-> "ok", chunks |-> s, end |-> e,
                  frame |-> _frame_message(cmd, p), close |-> "ok"] :
                    s \in Splits(_frame_message(cmd, p), MaxChunks)} :
                p \in FramePayloads, e \in {"close", "timeout"}}

DirectOutcomes ==
    [factory : {"ok", "import_error", "error"}, content : {"ok", "timeout", "error"},
     cut : {"ok", "error"}, close : {"ok", "error"}]

DirectPayloads == {"text", "raw", "bad_raw", "receipt", "bad_receipt", "other", "not_a_dict"}

WireInputs ==
    UNION {[op : {"send_command_input"}, cmd : {cmd}, payload : {""}, o : WireOutcomes(cmd)] :
             cmd \in {CMD_OPEN_RECEIPT, CMD_STATUS}}
    \cup [op : {"print_direct_input"}, cmd : {0}, payload : DirectPayloads, o : DirectOutcomes]
    \cup [op : {"open_cashbox_input"}, cmd : {0}, payload : {""},
          o : {d \in DirectOutcomes : d.cut = "ok"}]

WireSendCommand ==
    /\ pure.op = "send_command_input"
    /\ pure' = [op |-> "send_command", input |-> pure, did |-> send_command(pure.o)]
    /\ UNCHANGED exceptPure

WirePrintDirect ==
    /\ pure.op = "print_direct_input"
    /\ pure' = [op |-> "print_direct", input |-> pure,
                did |-> print_direct(pure.payload, pure.o)]
    /\ UNCHANGED exceptPure

WireOpenCashbox ==
    /\ pure.op = "open_cashbox_input"
    /\ pure' = [op |-> "open_cashbox", input |-> pure, did |-> open_cashbox(pure.o)]
    /\ UNCHANGED exceptPure

(***************************************************************************)
(* fiscal_print_receipt served by several threads for one pos_config_id:   *)
(* PrinterFactory hands every request the same adapter, and a thread can   *)
(* be suspended wherever it waits for the socket. The receipt of a request *)
(* has one item and one payment.                                           *)
(***************************************************************************)
\* waiting: the command of phase pc is sent and its reply not yet read
IdleRequest == [pc |-> "idle", waiting |-> FALSE, fail_safe |-> FALSE, result |-> "none"]

\* the adapter was connected by an earlier request; owner: the thread whose
\* RECEIPT_OPEN the printer executed (0: no receipt open); registered: the
\* <<owner, sender>> of the items and payments the printer registered;
\* replies: what the printer sent and no recv() has read yet
NoRequests ==
    [current_state |-> STATE_INIT, owner |-> 0, replies |-> <<>>, registered |-> {},
     thr |-> [t \in Threads |-> IdleRequest]]

ParCommand(pc) ==
    CASE pc = "open" -> SF20_CMD_RECEIPT_OPEN
      [] pc = "items" -> SF20_CMD_ITEM
      [] pc = "payments" -> SF20_CMD_PAYMENT
      [] OTHER -> SF20_CMD_RECEIPT_CLOSE

\* `if self.current_state == self.STATE_RECEIPT_OPEN` / `!=` at the top of a method
ParRejected(pc, st) ==
    IF pc = "open" THEN st = STATE_RECEIPT_OPEN ELSE st # STATE_RECEIPT_OPEN

\* printer_controller.py 193-229: what the handler does with (success, msg)
ParAfter(r, ok) ==
    CASE r.pc = "open" ->
           IF ok THEN [r EXCEPT !.pc = "items", !.waiting = FALSE]
           ELSE [r EXCEPT !.pc = "idle", !.waiting = FALSE, !.result = "failed"]
      [] r.pc = "items" ->
           IF ok \/ r.fail_safe THEN [r EXCEPT !.pc = "payments", !.waiting = FALSE]
           ELSE [r EXCEPT !.pc = "idle", !.waiting = FALSE, !.result = "failed"]
      [] r.pc = "payments" ->
           IF ok \/ r.fail_safe THEN [r EXCEPT !.pc = "close", !.waiting = FALSE]
           ELSE [r EXCEPT !.pc = "idle", !.waiting = FALSE, !.result = "failed"]
      [] OTHER ->
           [r EXCEPT !.pc = "idle", !.waiting = FALSE,
                     !.result = IF ok THEN "printed"
                                ELSE IF r.fail_safe THEN "fail_safe" ELSE "failed"]

\* the printer executes the command of thread t, or refuses it
ParPrinter(p, t, cmd) ==
    LET permitted == PrinterPermits(cmd, p.owner # 0)
    IN [p EXCEPT
          !.owner = IF ~permitted THEN @
                    ELSE IF cmd = SF20_CMD_RECEIPT_OPEN THEN t
                    ELSE IF cmd = SF20_CMD_RECEIPT_CLOSE THEN 0
                    ELSE @,
          !.registered = IF permitted /\ cmd \in {SF20_CMD_ITEM, SF20_CMD_PAYMENT}
                         THEN @ \cup {<<p.owner, t>>} ELSE @,
          !.replies = Append(@, permitted)]

\* lines 155-189: the request is read; the cached adapter has its socket
ParBegin(t, fs) ==
    /\ par.thr[t].pc = "idle"
    /\ par' = [par EXCEPT !.thr[t] = [IdleRequest EXCEPT !.pc = "open", !.fail_safe = fs]]
    /\ UNCHANGED exceptPar

\* a method of the adapter up to sendall(): the check of current_state, then
\* the command goes out (fiscal_printer_service.py 144-147, 312-316); no
\* lock is taken in the controller, the factory or the adapter
ParCall(t) ==
    LET r == par.thr[t]
    IN /\ r.pc # "idle"
       /\ ~r.waiting
       /\ par' = IF ParRejected(r.pc, par.current_state)
                 THEN [par EXCEPT !.thr[t] = ParAfter(r, FALSE)]
                 ELSE [ParPrinter(par, t, ParCommand(r.pc)) EXCEPT !.thr[t].waiting = TRUE]
       /\ UNCHANGED exceptPar

\* the rest of the method: recv() hands out the oldest reply on the socket,
\* whichever command it answers (fiscal_printer_service.py 317, 149-155)
ParReply(t) ==
    LET r == par.thr[t]
        ok == Head(par.replies)
    IN /\ r.waiting
       /\ par.replies # <<>>
       /\ par' = [par EXCEPT
                    !.replies = Tail(@),
                    !.current_state =
                       IF ok /\ r.pc = "open" THEN STATE_RECEIPT_OPEN
                       ELSE IF ok /\ r.pc = "close" THEN STATE_RECEIPT_CLOSED
                       ELSE @,
                    !.thr[t] = ParAfter(r, ok)]
       /\ UNCHANGED exceptPar

(***************************************************************************)
(* PrinterFactory.disconnect_all while other threads call the factory:     *)
(* the interpreter may switch threads before each adapter.disconnect(),    *)
(* before each next() of a loop and before each clear()                    *)
(***************************************************************************)
\* cur: the adapter the loop body is about to disconnect; left: the values
\* the iterator has not handed out; size: the size of the dict when the
\* iterator was made; visited: the adapters this sweep disconnected;
\* dropped: the adapters its clear() calls took out of the caches
IdleSweep ==
    [pc |-> "idle", cls |-> "fiscal", cur |-> NoAdapter, left |-> {}, size |-> 0,
     visited |-> {}, dropped |-> {}]

EntriesOf(instances, cls) == {instances[cls][i] : i \in Ids} \ {NoAdapter}

\* `for adapter in cls._instances.values():` up to the first adapter
EnterLoop(s, instances, cls) ==
    LET objs == EntriesOf(instances, cls)
        first == CHOOSE a \in objs : TRUE
    IN IF objs = {} THEN [s EXCEPT !.pc = "end", !.cls = cls]
       ELSE [s EXCEPT !.pc = "body", !.cls = cls, !.cur = first,
                      !.left = objs \ {first}, !.size = Cardinality(objs)]

\* where a loop that found nothing (more) goes on: lines 133 and 139
AfterLoop(s, instances) ==
    IF s.cls = "fiscal"
    THEN LET n == EnterLoop(s, instances, "nonfiscal")
         IN IF n.pc = "end" THEN [n EXCEPT !.pc = "clear_fiscal"] ELSE n
    ELSE [s EXCEPT !.pc = "clear_fiscal"]

\* line 127: disconnect_all is entered
SweepStart ==
    /\ sweep.pc \in {"idle", "done", "raised"}
    /\ LET s == EnterLoop(IdleSweep, factory.instances, "fiscal")
       IN sweep' = IF s.pc = "end" THEN AfterLoop(s, factory.instances) ELSE s
    /\ UNCHANGED <<factory, exceptFactorySweep>>

\* lines 128-131 / 134-137: adapter.disconnect() inside try/except
SweepBody ==
    /\ sweep.pc = "body"
    /\ factory' = [factory EXCEPT !.heap = Disconnected(@, {sweep.cur})]
    /\ sweep' = [sweep EXCEPT !.pc = "next", !.visited = @ \cup {sweep.cur}]
    /\ UNCHANGED exceptFactorySweep

\* the next() of the for loop: a dict whose size changed since the iterator
\* was made raises RuntimeError, which nothing in disconnect_all catches
SweepNext ==
    /\ sweep.pc = "next"
    /\ sweep' =
         IF Cardinality(EntriesOf(factory.instances, sweep.cls)) # sweep.size
         THEN [sweep EXCEPT !.pc = "raised"]
         ELSE IF sweep.left = {} THEN AfterLoop(sweep, factory.instances)
         ELSE LET a == CHOOSE x \in sweep.left : TRUE
              IN [sweep EXCEPT !.pc = "body", !.cur = a, !.left = @ \ {a}]
    /\ UNCHANGED <<factory, exceptFactorySweep>>

\* lines 139 and 140: `cls._fiscal_instances.clear()`, `cls._nonfiscal_instances.clear()`
SweepClear(cls) ==
    /\ sweep.pc = IF cls = "fiscal" THEN "clear_fiscal" ELSE "clear_nonfiscal"
    /\ factory' = [factory EXCEPT !.instances[cls] = [i \in Ids |-> NoAdapter]]
    /\ sweep' = [sweep EXCEPT
                   !.pc = IF cls = "fiscal" THEN "clear_nonfiscal" ELSE "done",
                   !.dropped = @ \cup EntriesOf(factory.instances, cls)]
    /\ UNCHANGED exceptFactorySweep

(***************************************************************************)
(* The adapter used directly: any caller, any order of calls                *)
(***************************************************************************)
DirectOps == {"open_receipt", "add_item", "process_payment", "close_receipt",
              "execute_z_report", "get_status"}

Direct(op, o) ==
    /\ AdapterCall(op, 0, o)
    /\ UNCHANGED <<ctl, drv, sideVars>>

DirectConnect(co) ==
    /\ unclosed < MaxSockets
    /\ AdapterConnect(co)
    /\ UNCHANGED <<ctl, drv, sideVars>>

DirectDisconnect ==
    /\ socket # "None"
    /\ AdapterDisconnect
    /\ UNCHANGED <<ctl, drv, sideVars>>

Init ==
    /\ socket = "None"
    /\ current_state = STATE_INIT
    /\ printerOpen = FALSE
    /\ last = NoCall
    /\ opensSinceClose = 0
    /\ unclosed = 0
    /\ ctl = IdleCtl
    /\ drv = IdleDrv
    /\ factory = EmptyFactory
    /\ codec = NoCodec
    /\ escpos = NewEscpos
    /\ hw = IdleHw
    /\ pure = NoPure
    /\ hook = IdleHook
    /\ par = NoRequests
    /\ sweep = IdleSweep

\* The adapter alone
NextAdapter ==
    \/ \E op \in DirectOps :
         \E o \in Outcomes(CommandOf(op), socket, printerOpen) : Direct(op, o)
    \/ \E co \in ConnectOutcomes : DirectConnect(co)
    \/ DirectDisconnect

SpecAdapter == Init /\ [][NextAdapter]_vars

\* Requests to /pos_printer/fiscal/print_receipt, served one at a time
Next ==
    \/ \E req \in {"missing", "unconfigured"} : CtlBegin(req, FALSE, 0, 0)
    \/ \E fs \in BOOLEAN, ni \in 0..MaxLines, np \in 0..MaxPayments : CtlBegin("ok", fs, ni, np)
    \/ \E co \in ConnectOutcomes : CtlConnect(co)
    \/ \E o \in Outcomes(SF20_CMD_RECEIPT_OPEN, socket, printerOpen) : CtlOpen(o)
    \/ \E o \in Outcomes(SF20_CMD_ITEM, socket, printerOpen) : CtlItem(o)
    \/ \E o \in Outcomes(SF20_CMD_PAYMENT, socket, printerOpen) : CtlPayment(o)
    \/ \E o \in Outcomes(SF20_CMD_RECEIPT_CLOSE, socket, printerOpen) : CtlClose(o)

Spec == Init /\ [][Next]_vars

\* Calls of SF20Driver.print_receipt, one at a time
NextDriver ==
    \/ \E nl \in 0..MaxLines, np \in 0..MaxPayments : DrvBegin(nl, np)
    \/ \E o \in DrvOutcomes(CMD_OPEN_RECEIPT) : DrvOpenReceipt(o)
    \/ \E o \in DrvOutcomes(CMD_SELL_ITEM) : DrvSellItem(o)
    \/ \E o \in DrvOutcomes(CMD_PAYMENT) : DrvApplyPayment(o)
    \/ \E o \in DrvOutcomes(CMD_CANCEL) : DrvCancelReceipt(o)
    \/ \E o \in DrvOutcomes(CMD_CLOSE_RECEIPT) : DrvCloseReceipt(o)

SpecDriver == Init /\ [][NextDriver]_vars

\* Calls of PrinterFactory, one at a time, and callers connecting what they got
NextFactory ==
    \/ \E cls \in Classes, id \in Ids, p \in Params : create_printer(cls, id, p)
    \/ \E cls \in Classes, id \in Ids : get_printer(cls, id)
    \/ \E a \in 1..MaxAdapters, co \in ConnectOutcomes : FactoryConnect(a, co)
    \/ \E cls \in Classes, id \in Ids, errs \in SUBSET (1..MaxAdapters) :
         disconnect_printer(cls, id, errs)
    \/ \E errs \in SUBSET (1..MaxAdapters) : disconnect_all(errs)

SpecFactory == Init /\ [][NextFactory]_vars

\* create_* entered by MaxThreads threads at once
NextThreads ==
    \/ \E t \in Threads, cls \in Classes, id \in Ids, p \in Params : ThrCall(t, cls, id, p)
    \/ \E t \in Threads : ThrCheck(t)
    \/ \E t \in Threads : ThrConstruct(t)
    \/ \E t \in Threads : ThrStore(t)

SpecThreads == Init /\ [][NextThreads]_vars

\* The codec: the arguments are drawn first, then one function is applied
InitCodec ==
    /\ socket = "None"
    /\ current_state = STATE_INIT
    /\ printerOpen = FALSE
    /\ last = NoCall
    /\ opensSinceClose = 0
    /\ unclosed = 0
    /\ ctl = IdleCtl
    /\ drv = IdleDrv
    /\ factory = EmptyFactory
    /\ codec \in CodecInputs
    /\ escpos = NewEscpos
    /\ hw = IdleHw
    /\ pure = NoPure
    /\ hook = IdleHook
    /\ par = NoRequests
    /\ sweep = IdleSweep

NextCodec ==
    \/ CodecFrame
    \/ \E k \in 1..MaxPayload, bit \in 0..7 : CodecFlip(k, bit)
    \/ CodecParse
    \/ CodecChecksum

SpecCodec == InitCodec /\ [][NextCodec]_vars

\* Calls of one ESCPOSPrinterAdapter, one at a time
NextEscpos ==
    \/ \E op \in EscposOps : \E a \in EscposArgs(op) :
          \E o \in SendOutcomes(escpos.socket,
                                IF NotConnected(escpos.socket, escpos.is_ready) THEN <<>>
                                ELSE Job(op, a, escpos.width)) : EscposCall(op, a, o)
    \/ \E co \in ConnectOutcomes, o \in [fail : 0..1, part : {0}] : EscposConnect(co, o)
    \/ \E raises \in BOOLEAN : EscposDisconnect(raises)

SpecEscpos == Init /\ [][NextEscpos]_vars

InitComanda ==
    /\ socket = "None"
    /\ current_state = STATE_INIT
    /\ printerOpen = FALSE
    /\ last = NoCall
    /\ opensSinceClose = 0
    /\ unclosed = 0
    /\ ctl = IdleCtl
    /\ drv = IdleDrv
    /\ factory = EmptyFactory
    /\ codec = NoCodec
    /\ escpos = NewEscpos
    /\ hw = IdleHw
    /\ pure \in ComandaInputs
    /\ hook = IdleHook
    /\ par = NoRequests
    /\ sweep = IdleSweep

NextComanda == ComandaBuild

SpecComanda == InitComanda /\ [][NextComanda]_vars

InitPayload ==
    /\ socket = "None"
    /\ current_state = STATE_INIT
    /\ printerOpen = FALSE
    /\ last = NoCall
    /\ opensSinceClose = 0
    /\ unclosed = 0
    /\ ctl = IdleCtl
    /\ drv = IdleDrv
    /\ factory = EmptyFactory
    /\ codec = NoCodec
    /\ escpos = NewEscpos
    /\ hw = IdleHw
    /\ pure \in PayloadInputs
    /\ hook = IdleHook
    /\ par = NoRequests
    /\ sweep = IdleSweep

NextPayload ==
    \/ PureSellItem
    \/ PureApplyPayment
    \/ PureAddItem

SpecPayload == InitPayload /\ [][NextPayload]_vars

InitHw ==
    /\ socket = "None"
    /\ current_state = STATE_INIT
    /\ printerOpen = FALSE
    /\ last = NoCall
    /\ opensSinceClose = 0
    /\ unclosed = 0
    /\ ctl = IdleCtl
    /\ drv = IdleDrv
    /\ factory = EmptyFactory
    /\ codec = NoCodec
    /\ escpos = NewEscpos
    /\ hw \in HwInputs
    /\ pure = NoPure
    /\ hook = IdleHook
    /\ par = NoRequests
    /\ sweep = IdleSweep

NextHw ==
    \/ HwPrinterAction
    \/ HwHandleAction

SpecHw == InitHw /\ [][NextHw]_vars

\* One driver call on its own connection: the outcome is drawn, then the call made
InitWire ==
    /\ socket = "None"
    /\ current_state = STATE_INIT
    /\ printerOpen = FALSE
    /\ last = NoCall
    /\ opensSinceClose = 0
    /\ unclosed = 0
    /\ ctl = IdleCtl
    /\ drv = IdleDrv
    /\ factory = EmptyFactory
    /\ codec = NoCodec
    /\ escpos = NewEscpos
    /\ hw = IdleHw
    /\ pure \in WireInputs
    /\ hook = IdleHook
    /\ par = NoRequests
    /\ sweep = IdleSweep

NextWire ==
    \/ WireSendCommand
    \/ WirePrintDirect
    \/ WireOpenCashbox

SpecWire == InitWire /\ [][NextWire]_vars

\* Requests to /pos_printer/fiscal/print_receipt served by MaxThreads threads
NextRequests ==
    \/ \E t \in Threads, fs \in BOOLEAN : ParBegin(t, fs)
    \/ \E t \in Threads : ParCall(t)
    \/ \E t \in Threads : ParReply(t)

SpecRequests == Init /\ [][NextRequests]_vars

\* disconnect_all in one thread; create_*, connect() and disconnect_* in others
NextSweep ==
    \/ SweepStart
    \/ SweepBody
    \/ SweepNext
    \/ \E cls \in Classes : SweepClear(cls)
    \/ \E t \in Threads, cls \in Classes, id \in Ids, p \in Params : ThrCall(t, cls, id, p)
    \/ \E t \in Threads : ThrCheck(t)
    \/ \E t \in Threads : ThrConstruct(t)
    \/ \E t \in Threads : ThrStore(t)
    \/ \E a \in 1..MaxAdapters, co \in ConnectOutcomes : FactoryConnect(a, co)
    \/ \E cls \in Classes, id \in Ids : disconnect_printer(cls, id, {})

SpecSweep == Init /\ [][NextSweep]_vars

\* Completed orders handed to PosOrderHooks.on_order_completed, one at a time
NextHooks ==
    \/ \E order \in HookOrders : HookBegin(order)
    \/ \E co \in ConnectOutcomes : HookFiscalConnect(co)
    \/ \E o \in Outcomes(SF20_CMD_RECEIPT_OPEN, socket, printerOpen) : HookOpen(o)
    \/ \E o \in Outcomes(SF20_CMD_ITEM, socket, printerOpen) : HookItem(o)
    \/ \E o \in Outcomes(SF20_CMD_PAYMENT, socket, printerOpen) : HookPayment(o)
    \/ \E o \in Outcomes(SF20_CMD_RECEIPT_CLOSE, socket, printerOpen) : HookClose(o)
    \/ \E co \in ConnectOutcomes, o \in [fail : 0..1, part : {0}] : HookComandaConnect(co, o)
    \/ \E order \in SampleOrders, o \in [fail : 0..2, part : {0}] :
          HookComanda(order, o)

SpecHooks == Init /\ [][NextHooks]_vars

(***************************************************************************)
(* Properties of SF20FiscalPrinterAdapter (under SpecAdapter)               *)
(***************************************************************************)
ReceiptOps == {"add_item", "process_payment", "close_receipt"}

\* the response carries the printer's OK or ACK marker
HasAckMarker(r) ==
    \E i \in 1..Len(r) :
        \/ r[i] = ACK_BYTE
        \/ (i < Len(r) /\ r[i] = 79 /\ r[i + 1] = 75)

\* the call received a response, and the response acknowledges the command
Acked(l) == l.ret.sent /\ l.ret.exc = "none" /\ HasAckMarker(l.ret.resp)

\* n is the first run of decimal digits of r, cut after MaxReceiptDigits digits,
\* or UNKNOWN when r holds no digit
IsReceiptNumberOf(n, r) ==
    IF \A i \in 1..Len(r) : ~IsDigit(r[i])
    THEN n = [text |-> "UNKNOWN", detail |-> "", data |-> <<>>]
    ELSE /\ n.text = "" /\ n.detail = ""
         /\ \E i \in 1..Len(r) :
              LET k == Len(n.data)
              IN /\ \A j \in 1..(i - 1) : ~IsDigit(r[j])
                 /\ k >= 1 /\ k <= MaxReceiptDigits /\ i + k - 1 <= Len(r)
                 /\ SubSeq(r, i, i + k - 1) = n.data
                 /\ \A j \in i..(i + k - 1) : IsDigit(r[j])
                 /\ (k = MaxReceiptDigits \/ i + k > Len(r) \/ ~IsDigit(r[i + k]))

\* C1 (as claimed): the adapter never hands an open-receipt command to the socket
\* while the printer still holds a receipt opened by an earlier open-receipt
\* command, so the printer never has more than one receipt open.
C1_NeverOpensOverOpenReceipt ==
    ~(last.op = "open_receipt" /\ last.ret.sent /\ last.popen)

\* C2: add_item, process_payment and close_receipt called in a state other than
\* receipt_open return (False, 'No receipt open'), send nothing and leave
\* current_state (and the printer) as they were.
C2_NoReceiptOpenRejected ==
    (last.op \in ReceiptOps /\ last.pre # STATE_RECEIPT_OPEN)
        => /\ ~last.ret.ok
           /\ last.ret.msg = Msg("No receipt open")
           /\ ~last.ret.sent
           /\ current_state = last.pre
           /\ printerOpen = last.popen

C2_Witness ==
    /\ last.op = "add_item" /\ last.pre = STATE_INIT /\ last.psock = "open"
    /\ ~last.ret.ok

\* C3: open_receipt called in state receipt_open returns (False, 'Receipt already
\* open') without sending a command; hence between any two successful
\* open_receipt calls there is a successful close_receipt.
C3_AlreadyOpenRejected ==
    /\ (last.op = "open_receipt" /\ last.pre = STATE_RECEIPT_OPEN)
          => /\ ~last.ret.ok
             /\ last.ret.msg = Msg("Receipt already open")
             /\ ~last.ret.sent
             /\ current_state = last.pre
    /\ opensSinceClose <= 1

C3_Witness ==
    /\ last.op = "open_receipt" /\ last.pre = STATE_RECEIPT_OPEN /\ last.psock = "open"
    /\ ~last.ret.ok /\ opensSinceClose = 1

\* C4 (as claimed): execute_z_report in state receipt_open fails and sends
\* nothing; in every other state the Z-report command is sent.
C4_ZReportSentInEveryOtherState ==
    last.op = "execute_z_report"
        => IF last.pre = STATE_RECEIPT_OPEN THEN ~last.ret.ok /\ ~last.ret.sent
           ELSE last.ret.sent

\* C4 (amended): execute_z_report in state receipt_open fails and sends nothing;
\* in every other state the Z-report command is handed to the socket exactly
\* when the adapter has one, and without a socket the call fails with nothing
\* sent; so no Z-report command is sent in state receipt_open.
C4_ZReportGuard ==
    last.op = "execute_z_report"
        => /\ current_state = last.pre
           /\ IF last.pre = STATE_RECEIPT_OPEN
              THEN /\ ~last.ret.ok /\ ~last.ret.sent
                   /\ last.ret.msg = Msg("Cannot execute Z report while receipt is open")
              ELSE /\ last.ret.sent <=> (last.psock # "None")
                   /\ last.psock = "None" => ~last.ret.ok

C4_Witness ==
    /\ last.op = "execute_z_report" /\ last.pre = STATE_RECEIPT_OPEN
    /\ last.psock = "open" /\ ~last.ret.sent

\* C5: in state receipt_open, a close_receipt the printer acknowledges moves
\* current_state to receipt_closed and returns the receipt number decoded from
\* the response; one that is not acknowledged, or fails in transport, returns
\* failure and leaves current_state at receipt_open.
C5_CloseReceipt ==
    (last.op = "close_receipt" /\ last.pre = STATE_RECEIPT_OPEN)
        => IF Acked(last)
           THEN /\ last.ret.ok
                /\ current_state = STATE_RECEIPT_CLOSED
                /\ IsReceiptNumberOf(last.ret.msg, last.ret.resp)
           ELSE /\ ~last.ret.ok
                /\ current_state = STATE_RECEIPT_OPEN

C5_Witness ==
    /\ last.op = "close_receipt" /\ last.pre = STATE_RECEIPT_OPEN
    /\ last.ret.ok /\ Len(last.ret.msg.data) = 1 /\ Len(last.ret.resp) > 3

\* C6: current_state starts as init and changes only through an acknowledged
\* open_receipt (to receipt_open) or an acknowledged close_receipt (to
\* receipt_closed); connect, disconnect, get_status, add_item, process_payment,
\* execute_z_report and every call that ends in a timeout or connection error
\* leave it unchanged and return a failure value instead of raising.
C6_StateChangesOnlyOnAck ==
    /\ last.op = "none" => current_state = STATE_INIT
    /\ current_state # last.pre
          => \/ /\ last.op = "open_receipt" /\ last.ret.ok /\ Acked(last)
                /\ current_state = STATE_RECEIPT_OPEN
             \/ /\ last.op = "close_receipt" /\ last.ret.ok /\ Acked(last)
                /\ current_state = STATE_RECEIPT_CLOSED
    /\ last.op \in {"connect", "disconnect", "get_status", "add_item", "process_payment",
                    "execute_z_report"}
          => current_state = last.pre
    /\ last.ret.exc # "none"
          => current_state = last.pre /\ ~last.ret.ok /\ ~last.ret.raised
    /\ ~last.ret.raised

C6_Witness ==
    /\ last.op = "close_receipt" /\ last.pre = STATE_RECEIPT_OPEN
    /\ last.ret.exc = "timeout" /\ last.exec

(***************************************************************************)
(* Properties of SF20Driver.print_receipt (under SpecDriver)                *)
(***************************************************************************)
\* the commands of a full receipt: open, one sale per line, one payment per
\* payment, close
FullReceipt(lines, payments) ==
    <<[cmd |-> CMD_OPEN_RECEIPT, arg |-> 0]>>
    \o [k \in 1..Len(lines) |-> [cmd |-> CMD_SELL_ITEM, arg |-> lines[k]]]
    \o [k \in 1..Len(payments) |-> [cmd |-> CMD_PAYMENT, arg |-> payments[k]]]
    \o <<[cmd |-> CMD_CLOSE_RECEIPT, arg |-> 0]>>

IsReceiptCommand(e) == e.cmd # CMD_CANCEL

DrvReceiptCommands == SelectSeq(drv.sent, IsReceiptCommand)

DrvReturned == drv.pc = "idle" /\ drv.status # ""

\* C7: print_receipt issues open-receipt, one sell-item per line in list order,
\* one payment per payment in list order, close-receipt, in that order; a
\* command of this sequence is issued only if every earlier one succeeded; and
\* 'ok' is returned only if the open, every item, every payment and the close
\* all succeeded.
C7_StrictSequence ==
    LET seq == DrvReceiptCommands
        full == FullReceipt(drv.lines, drv.payments)
    IN /\ Len(seq) <= Len(full)
       /\ \A k \in 1..Len(seq) : seq[k].cmd = full[k].cmd /\ seq[k].arg = full[k].arg
       /\ \A k \in 1..(Len(seq) - 1) : seq[k].ok
       /\ drv.status = "ok"
             => /\ drv.pc = "idle"
                /\ Len(seq) = Len(full)
                /\ \A k \in 1..Len(seq) : seq[k].ok
       /\ (DrvReturned /\ Len(seq) = Len(full) /\ \A k \in 1..Len(seq) : seq[k].ok)
             => drv.status = "ok"

C7_Witness ==
    /\ DrvReturned /\ drv.status = "ok"
    /\ Len(drv.lines) = 2 /\ Len(drv.payments) = 2
    /\ Len(drv.sent) = 6

(***************************************************************************)
(* Properties of the fail-strict and fail-safe policies                     *)
(***************************************************************************)
CtlReturned == ctl.pc = "idle" /\ ctl.result.present

\* how often the request called cancel_receipt on the adapter
CtlCancelCalls == Cardinality({k \in 1..Len(ctl.log) : ctl.log[k].op = "cancel_receipt"})

\* how often the driver issued its cancel command
DrvCancelCommands == Cardinality({k \in 1..Len(drv.sent) : drv.sent[k].cmd = CMD_CANCEL})

\* the controller in fail-strict mode: the first failed step after the open
\* is the last step, the result is an error naming it, and cancel ran once
C8_Controller ==
    (CtlReturned /\ ~ctl.fail_safe /\ Len(ctl.log) >= 2 /\ ctl.log[1].ok
       /\ \E k \in 2..Len(ctl.log) : ~ctl.log[k].ok)
        => /\ ~ctl.result.success
           /\ \A k \in 2..(Len(ctl.log) - 1) : ctl.log[k].ok
           /\ ctl.result.message =
                (CASE ctl.log[Len(ctl.log)].op = "add_item" -> "Item registration failed: "
                   [] ctl.log[Len(ctl.log)].op = "process_payment" -> "Payment failed: "
                   [] OTHER -> "Failed to close receipt: ")
           /\ CtlCancelCalls = 1

\* the driver: the same, over the commands it issued
C8_Driver ==
    LET seq == DrvReceiptCommands
    IN (DrvReturned /\ Len(seq) >= 2 /\ seq[1].ok /\ \E k \in 2..Len(seq) : ~seq[k].ok)
        => /\ drv.status = "error"
           /\ \A k \in 2..(Len(seq) - 1) : seq[k].ok
           /\ drv.message =
                (CASE seq[Len(seq)].cmd = CMD_SELL_ITEM -> "Failed to add item: "
                   [] seq[Len(seq)].cmd = CMD_PAYMENT -> "Failed to apply payment"
                   [] OTHER -> "Failed to close receipt")
           /\ DrvCancelCommands = 1

\* C8 (as claimed): in fail-strict mode a failed sell-item, payment or
\* close-receipt step after the open ends the operation with an error result
\* naming the step, no further item/payment/close command, and exactly one
\* cancel-receipt.
C8_FailStrictCancelsOnce == C8_Controller /\ C8_Driver

\* C9 (as claimed): with fail_safe, when add_item for line 2 of 2 fails in
\* transport, the request still runs every payment and close_receipt, returns
\* success, and the result shows that a line was skipped.
C9_FailSafeReportsSkippedLine ==
    (CtlReturned /\ ctl.fail_safe /\ Len(ctl.items) = 2 /\ Len(ctl.log) >= 3
       /\ ctl.log[2].ok
       /\ ctl.log[3].op = "add_item" /\ ~ctl.log[3].ok /\ ctl.log[3].transport)
        => /\ Len(ctl.log) = 1 + 2 + Len(ctl.payments) + 1
           /\ ctl.log[Len(ctl.log)].op = "close_receipt"
           /\ ctl.result.success
           /\ \/ ctl.result.fail_safe_triggered
              \/ ctl.result.message # "Receipt printed successfully"

\* C10 (as claimed): with fail_safe no fiscal_print_receipt request returns
\* success=false because the printer could not be talked to, and a failed
\* close is reported as success with fail_safe_triggered.
C10_FailSafeNeverBlocks ==
    (CtlReturned /\ ctl.fail_safe)
        => /\ ctl.result.success
           /\ (ctl.log # <<>> /\ ctl.log[Len(ctl.log)].op = "close_receipt"
                 /\ ~ctl.log[Len(ctl.log)].ok)
                 => ctl.result.fail_safe_triggered

(***************************************************************************)
(* PrinterFactory                                                          *)
(***************************************************************************)
FactoryUnchanged ==
    /\ factory.instances = factory.call.before.instances
    /\ factory.heap = factory.call.before.heap

\* C11: create_* for a pos_config_id that already has an adapter of that class
\* returns that very adapter, constructs nothing, and the adapter keeps the
\* ip/port/timeout it was built with whatever the second call passes.
C11_CreateReturnsCached ==
    (factory.call.op = "create"
       /\ factory.call.before.instances[factory.call.cls][factory.call.id] # NoAdapter)
        => /\ factory.call.ret
                = factory.call.before.instances[factory.call.cls][factory.call.id]
           /\ ~factory.call.constructed
           /\ FactoryUnchanged

\* a second create for the same id with other parameters than the first
C11_Witness ==
    /\ factory.call.op = "create"
    /\ factory.call.before.instances[factory.call.cls][factory.call.id] # NoAdapter
    /\ factory.call.ret # NoAdapter
    /\ factory.heap[factory.call.ret].ip # factory.call.params.ip
    /\ factory.heap[factory.call.ret].port # factory.call.params.port
    /\ factory.heap[factory.call.ret].timeout # factory.call.params.timeout

\* the threads that returned from create_* for the same key
ReturnedFor(cls, id) ==
    {t \in Threads : factory.thr[t].pc = "returned"
                       /\ factory.thr[t].cls = cls /\ factory.thr[t].id = id}

ConstructedFor(cls, id) ==
    {t \in Threads : factory.thr[t].constructed
                       /\ factory.thr[t].cls = cls /\ factory.thr[t].id = id}

\* C12 (as claimed): threads that call create_* for the same pos_config_id at
\* the same time all get the same adapter, and at most one adapter is
\* constructed for that key.
C12_ConcurrentCreateConverges ==
    \A cls \in Classes, id \in Ids :
        /\ \A t, u \in ReturnedFor(cls, id) : factory.thr[t].ret = factory.thr[u].ret
        /\ Cardinality(ConstructedFor(cls, id)) <= 1

\* C13: disconnect_* of a cached adapter disconnects it and removes the entry
\* (and only that entry), so that get_* returns None afterwards; for an id
\* without entry it changes nothing; get_* returns what the cache holds.
C13_DisconnectRemovesEntry ==
    LET c == factory.call
        a == c.before.instances[c.cls][c.id]
    IN /\ (c.op = "disconnect" /\ a # NoAdapter)
            => /\ factory.heap[a].socket = "None"
               /\ factory.instances[c.cls][c.id] = NoAdapter
               /\ \A cls \in Classes, id \in Ids :
                     <<cls, id>> # <<c.cls, c.id>>
                        => factory.instances[cls][id] = c.before.instances[cls][id]
               /\ \A b \in 1..Len(factory.heap) :
                     b # a => factory.heap[b] = c.before.heap[b]
       /\ (c.op = "disconnect" /\ a = NoAdapter) => FactoryUnchanged
       /\ c.op = "get" => c.ret = a

\* a connected, cached adapter was disconnected through the factory
C13_Witness ==
    LET c == factory.call
    IN /\ c.op = "disconnect"
       /\ c.before.instances[c.cls][c.id] # NoAdapter
       /\ c.before.heap[c.before.instances[c.cls][c.id]].socket = "open"

C15_RegistryFrame ==
    LET c == factory.call
    IN /\ (c.op = "create" /\ c.constructed)
            => /\ factory.instances[c.cls][c.id] = c.ret
               /\ factory.heap[c.ret].socket = "None"
               /\ \A b \in 1..Len(c.before.heap) : factory.heap[b] = c.before.heap[b]
       /\ c.op = "get" => FactoryUnchanged
       /\ \A cls \in Classes, id \in Ids :
            /\ (c.before.instances[cls][id] = NoAdapter /\ factory.instances[cls][id] # NoAdapter)
                  => c.op = "create"
            /\ (c.before.instances[cls][id] # NoAdapter
                  /\ factory.instances[cls][id] # c.before.instances[cls][id])
                  => c.op \in {"disconnect", "disconnect_all"}

\* an adapter was constructed while another one was connected
C15_Witness ==
    /\ factory.call.op = "create"
    /\ factory.call.constructed
    /\ \E b \in 1..Len(factory.heap) : factory.heap[b].socket = "open"

(***************************************************************************)
(* The framing codec                                                       *)
(***************************************************************************)
\* C16: a frame built by _frame_message parses back to the command and the
\* payload it was built from, whatever bytes the payload holds.
C16_FrameRoundTrip ==
    codec.op = "frame"
        => /\ codec.result.success
           /\ codec.result.command = codec.command
           /\ codec.result.payload = codec.payload

\* a payload made of the framing bytes themselves went through the round trip
C16_Witness ==
    /\ codec.op = "frame"
    /\ codec.payload = <<ETX, STX>>

\* C17: a frame with one bit of one payload byte inverted is rejected with
\* checksum_mismatch: the checksum byte it carries is the XOR of command and
\* payload as they were sent, and the XOR of what arrived differs from it in
\* exactly the inverted bit.
C17_BitFlipDetected ==
    codec.op = "flip"
        => /\ ~codec.result.success
           /\ codec.result.error = "checksum_mismatch"
           /\ codec.result.received = codec.frame[Len(codec.frame) - 1]
           /\ codec.result.expected = Xor(codec.result.received, 2 ^ codec.bit)

\* the top bit of the last payload byte was inverted
C17_Witness ==
    /\ codec.op = "flip"
    /\ codec.bit = 7
    /\ codec.index = MaxPayload
    /\ codec.data # codec.frame

\* XOR of data[i..j], folded from the left
RECURSIVE XorOfBytes(_, _, _)
XorOfBytes(data, i, j) ==
    IF i > j THEN 0 ELSE Xor(data[i], XorOfBytes(data, i + 1, j))

\* C18: _parse_response answers response_too_short below 4 bytes; else
\* invalid_framing unless the first byte is STX and the last ETX; else
\* checksum_mismatch with the expected and the received value unless the byte
\* before ETX is the XOR of the bytes between STX and it; else success with
\* command and payload.
C18_ParsePrecedence ==
    LET d == codec.data
        n == Len(codec.data)
        r == codec.result
    IN codec.op = "parse"
        => IF n < 4 THEN ~r.success /\ r.error = "response_too_short"
           ELSE IF d[1] # STX \/ d[n] # ETX THEN ~r.success /\ r.error = "invalid_framing"
           ELSE IF d[n - 1] # XorOfBytes(d, 2, n - 2)
           THEN /\ ~r.success
                /\ r.error = "checksum_mismatch"
                /\ r.expected = XorOfBytes(d, 2, n - 2)
                /\ r.received = d[n - 1]
           ELSE /\ r.success
                /\ r.command = d[2]
                /\ r.payload = SubSeq(d, 3, n - 2)

\* bytes that are neither framed nor carry the right checksum were parsed
C18_Witness ==
    /\ codec.op = "parse"
    /\ Len(codec.data) = MaxData
    /\ codec.data[1] # STX
    /\ codec.data[Len(codec.data) - 1] # XorOfBytes(codec.data, 2, Len(codec.data) - 2)
    /\ codec.result.error = "invalid_framing"

\* C19 (as claimed): among the byte strings the checksum is applied to, some
\* a and b have a checksum of a || b that differs from the XOR of their
\* checksums.
C19_ConcatenationDiffersSomewhere ==
    codec.op = "checksum"
        => \E a \in BytesUpTo(PayloadBytes, MaxPayload),
              b \in BytesUpTo(PayloadBytes, MaxPayload) :
              _compute_checksum(a \o b) # Xor(_compute_checksum(a), _compute_checksum(b))

\* C19 (amended): the checksum of a || b is the XOR of the checksums of a and
\* of b, for all byte strings a and b.
C19_ChecksumOfConcatenation ==
    codec.op = "checksum" => codec.whole = Xor(codec.left, codec.right)

\* two non-empty strings with non-zero checksums were concatenated
C19_Witness ==
    /\ codec.op = "checksum"
    /\ Len(codec.payload) = MaxPayload
    /\ Len(codec.other) = MaxPayload
    /\ codec.left # 0
    /\ codec.right # 0
    /\ codec.whole # 0

(***************************************************************************)
(* get_status                                                              *)
(***************************************************************************)
\* the response names none of the states _parse_status_response knows
Unrecognized(response) ==
    /\ ~Contains(response, B_READY)
    /\ ~Contains(response, B_RECEIPT_OPEN)
    /\ ~Contains(response, B_Z_REQUIRED)
    /\ ~Contains(response, B_MEMORY_FULL)
    /\ ~Contains(response, B_ERROR)

StatusFailed(c) ==
    /\ c.op = "get_status"
    /\ \/ c.ret.exc # "none"
       \/ Unrecognized(c.ret.resp)

\* C20 (as claimed): a status query that times out, finds no connection or
\* gets an unrecognized response raises nothing, returns ready=false with
\* state unknown, and leaves current_state as it was.
C20_StatusUnknownOnFailure ==
    StatusFailed(last)
        => /\ ~last.ret.raised
           /\ ~last.ret.status.ready
           /\ last.ret.status.state = "unknown"
           /\ current_state = last.pre

(***************************************************************************)
(* ESCPOSPrinterAdapter                                                    *)
(***************************************************************************)
\* what print_comanda is asked to send, in the order of the claim
RequestedSends(a, width) ==
    <<_build_comanda_document(a.order, width)>>
    \o (IF a.auto_cut THEN <<<<Command(CMD_PARTIAL_CUT)>>>> ELSE <<>>)
    \o (IF a.open_drawer THEN <<<<Command(CMD_OPEN_DRAWER)>>>> ELSE <<>>)

\* C21: print_comanda sends the document, then the cut if auto_cut, then the
\* drawer pulse if open_drawer; a send is made only if every send before it
\* succeeded, and success is returned only if all requested sends succeeded.
C21_ComandaSendOrder ==
    LET c == escpos.call
        want == RequestedSends(c.args, escpos.width)
    IN c.op = "print_comanda"
        => /\ Len(c.sends) <= Len(want)
           /\ \A k \in 1..Len(c.sends) :
                /\ c.sends[k].data = want[k]
                /\ k < Len(c.sends) => c.sends[k].ok
           /\ c.ok <=> (Len(c.sends) = Len(want) /\ \A k \in 1..Len(c.sends) : c.sends[k].ok)

\* a comanda with cut and drawer pulse whose cut could not be sent
C21_Witness ==
    LET c == escpos.call
    IN /\ c.op = "print_comanda"
       /\ c.args.auto_cut
       /\ c.args.open_drawer
       /\ Len(c.sends) = 2
       /\ ~c.sends[2].ok
       /\ ~c.ok

\* C22 (as claimed): at the end of every print_text or print_comanda job that
\* was sent successfully the printer has bold and underline off and normal
\* character size.
C22_NoFormattingLeak ==
    (escpos.call.op \in {"print_text", "print_comanda"} /\ escpos.call.ok)
        => /\ ~escpos.modes.bold
           /\ ~escpos.modes.underline
           /\ escpos.modes.size = "normal"

\* C23 (as claimed): before a successful connect() and after disconnect() the
\* five printing calls fail with 'Printer not connected' and send nothing;
\* a successful connect() leaves the ready flag set and has sent the init
\* command first.
C23_NotConnectedGuard ==
    LET c == escpos.call
    IN /\ (c.op \in {"cut_paper", "open_drawer", "line_feed", "print_text", "print_comanda"}
             /\ ~c.before.connected)
            => /\ ~c.ok
               /\ c.msg = "Printer not connected"
               /\ c.sends = <<>>
       /\ (c.op = "connect" /\ c.ok)
            => /\ escpos.is_ready
               /\ Len(c.sends) = 1
               /\ c.sends[1].data = <<Command(CMD_INIT)>>
               /\ c.sends[1].ok

\* the lines of a document, without the commands between them
LinesOf(document) ==
    LET IsLine(p) == p.cmd = "LF"
        lines == SelectSeq(document, IsLine)
    IN [k \in 1..Len(lines) |-> lines[k].text]

\* the first n bytes of a line
FirstBytes(bytes, n) == [k \in 1..(IF Len(bytes) < n THEN Len(bytes) ELSE n) |-> bytes[k]]

\* '<qty>x <description>' and, if there are notes, '  <notes>' for every item
RECURSIVE C24_ItemLines(_, _)
C24_ItemLines(items, width) ==
    IF items = <<>> THEN <<>>
    ELSE LET it == Head(items)
             first == FirstBytes(Utf8(FormatQuantity(it.quantity) \o <<120, 32>>
                                      \o it.description), width)
             second == FirstBytes(Utf8(<<32, 32>> \o it.notes), width)
         IN (IF it.notes = <<>> THEN <<first>> ELSE <<first, second>>)
            \o C24_ItemLines(Tail(items), width)

Dashes(width) == [k \in 1..width |-> 45]

\* C24: the document's lines are header, separator, order info, separator,
\* the 'Items' label, for each item in list order its line cut to width bytes
\* followed at once by its notes line (cut to width bytes) if it has notes,
\* separator, the footer if any, and three empty lines; every separator is
\* exactly width dashes.
C24_ComandaLayout ==
    pure.op = "comanda" =>
        LET o == pure.order_data
            w == pure.width
            L == LinesOf(pure.document)
            info == (IF o.table \in {Missing, <<>>} THEN 0 ELSE 1)
                      + (IF o.timestamp \in {Missing, <<>>} THEN 0 ELSE 1)
            its == C24_ItemLines(o.items, w)
            foot == IF o.footer \in {Missing, <<>>} THEN 0 ELSE 1
            sep3 == 5 + info + Len(its) + 1
        IN /\ Len(L) = sep3 + foot + 3
           /\ L[1] = Utf8(IF o.header = Missing THEN T_COMANDA ELSE o.header)
           /\ L[2] = Dashes(w)
           /\ FirstBytes(L[3], Len(T_ORDER)) = T_ORDER
           /\ L[4 + info] = Dashes(w)
           /\ L[5 + info] = FirstBytes(T_ITEMS \o [k \in 1..w |-> 32], w)
           /\ \A k \in 1..Len(its) : L[5 + info + k] = its[k]
           /\ L[sep3] = Dashes(w)
           /\ foot = 1 => L[sep3 + 1] = Utf8(o.footer)
           /\ \A k \in 1..3 : L[sep3 + foot + k] = <<>>

\* a 32-column comanda with two items, the first with notes, the second
\* without, and a footer
C24_Witness ==
    /\ pure.op = "comanda"
    /\ pure.width = DefaultWidth
    /\ Len(pure.order_data.items) = 2
    /\ pure.order_data.items[1].notes # <<>>
    /\ pure.order_data.items[2].notes = <<>>
    /\ pure.order_data.footer = <<232>>

\* a comanda on a narrow printer whose item line had to be cut
C24_WitnessCut ==
    /\ pure.op = "comanda"
    /\ pure.width = 3
    /\ Len(pure.order_data.items) = 1
    /\ pure.order_data.items[1].notes # <<>>

\* the result of the _send_command call that made print_receipt fail
FailedCommand == drv.pc = "idle" /\ drv.status = "error"

\* C28 (as claimed): every failure result of _send_command carries canRetry:
\* true for a socket timeout or socket error, false for a response that the
\* codec rejected (too short, invalid framing, checksum mismatch).
C28_CanRetryClassified ==
    FailedCommand =>
        /\ drv.details.canRetry \in {"true", "false"}
        /\ drv.details.error \in {"timeout", "socket_error"}
              => drv.details.canRetry = "true"
        /\ drv.details.error \in {"response_too_short", "invalid_framing", "checksum_mismatch"}
              => drv.details.canRetry = "false"

\* the unsigned big-endian integer in bytes i .. i+3; -1 for one of 2^31 or
\* more, which no amount of the sample reaches
Uint32At(data, i) ==
    IF data[i] >= 128 THEN -1
    ELSE data[i] * 16777216 + data[i + 1] * 65536 + data[i + 2] * 256 + data[i + 3]

\* n is x * scale up to the rounding of the conversion: at most one unit off
Scaled(n, x, scale) ==
    LET d == Pow(10, x.k)
        exact == x.sign * x.m * scale
    IN n * d - exact <= d /\ exact - n * d <= d

Nearest(n, x, scale) ==
    LET d == Pow(10, x.k)
        exact == x.sign * x.m * scale
    IN 2 * (n * d - exact) <= d /\ 2 * (exact - n * d) <= d

\* C30 (as claimed): the integer put on the wire for a price, an amount or a
\* quantity is the decimal value times 100 (times 1000 for the quantity of
\* sell_item) rounded to the nearest integer.
C30_ConversionRoundsToNearest ==
    /\ (pure.op = "sell_item" /\ ~pure.sent.raised) =>
          /\ pure.input.quantity # NoAmount
                => Nearest(Uint32At(pure.sent.data, 33), pure.input.quantity, 1000)
          /\ pure.input.price # NoAmount
                => Nearest(Uint32At(pure.sent.data, 37), pure.input.price, 100)
    /\ (pure.op = "apply_payment" /\ ~pure.sent.raised /\ pure.input.amount # NoAmount)
          => Nearest(Uint32At(pure.sent.data, 1), pure.input.amount, 100)
    /\ pure.op = "add_item" =>
          /\ Nearest(pure.cents.quantity_cents, pure.input.quantity, 100)
          /\ Nearest(pure.cents.price_cents, pure.input.amount, 100)

\* the fixed action set of a driver class
KnownActions(cls) ==
    IF cls = "SF20Driver"
    THEN {"print_receipt", "cashbox", "open_receipt", "sell_item", "apply_payment",
          "close_receipt", "status", "cancel_receipt"}
    ELSE {"print_receipt", "cashbox"}

NothingDone ==
    /\ hw.did.ran = <<>>
    /\ hw.did.sent = <<>>
    /\ hw.did.direct = 0
    /\ hw.did.proxy = <<>>

\* C25: handle_action runs the method that matches a name of the driver's
\* action set; for any other name it runs no method, sends nothing and raises
\* NotImplementedError, and printer_action answers result false with an
\* 'unimplemented_action' error.
C25_UnknownActionUnimplemented ==
    /\ hw.op = "handle_action" =>
          IF hw.data.action \in KnownActions(hw.cls)
          THEN hw.did.ran = <<IF hw.data.action = "cashbox" THEN "open_cashbox"
                               ELSE hw.data.action>>
          ELSE NothingDone /\ hw.did.exc.type = "NotImplementedError"
    /\ (hw.op = "printer_action" /\ hw.cls # "none"
          /\ hw.data.action \notin KnownActions(hw.cls))
          => /\ NothingDone
             /\ ~hw.response.result
             /\ hw.response.error = "unimplemented_action: "

\* 'cut_paper' asked of an SF20 printer through the controller
C25_Witness ==
    /\ hw.op = "printer_action"
    /\ hw.cls = "SF20Driver"
    /\ hw.data.action = "cut_paper"
    /\ hw.response.error = "unimplemented_action: "

C26_WitnessDriverError ==
    /\ hw.op = "printer_action"
    /\ hw.cls = "SF20Driver"
    /\ hw.did.exc.type = "AttributeError"
    /\ ~hw.response.result

\* C27: with use_iot_device and an iot_proxy, print_receipt and open_cashbox
\* of EscposTCPDriver and EpsonAdapter hand the action to the proxy exactly
\* once and open no direct connection; print_receipt returns status 'ok'
\* iff the proxy result's 'result' is truthy and turns a proxy exception
\* into status 'error' with canRetry true; without the flag or without a
\* proxy the direct path is taken and the proxy is not called.
C27_IotForwarding ==
    (hw.op = "handle_action" /\ hw.cls \in {"EscposTCPDriver", "EpsonAdapter"}
        /\ hw.data.action \in {"print_receipt", "cashbox"})
    => IF hw.printer.use_iot_device /\ hw.iot_proxy
       THEN /\ hw.did.proxy = <<hw.data.action>>
            /\ hw.did.direct = 0
            /\ hw.did.exc.type = "none"
            /\ hw.data.action = "print_receipt"
                  => /\ hw.did.ret.status \in {"ok", "error"}
                     /\ hw.did.ret.status = "ok" <=> hw.o.proxy = "truthy"
                     /\ hw.o.proxy = "raise"
                           => hw.did.ret.status = "error" /\ hw.did.ret.canRetry = "true"
       ELSE /\ hw.did.proxy = <<>>
            /\ hw.did.direct = 1 \/ hw.did.exc.type # "none"

\* a receipt the IoT box refused
C27_Witness ==
    /\ hw.op = "handle_action"
    /\ hw.cls = "EpsonAdapter"
    /\ hw.data.action = "print_receipt"
    /\ hw.printer.use_iot_device
    /\ hw.iot_proxy
    /\ hw.o.proxy = "falsy"
    /\ hw.did.proxy = <<"print_receipt">>
    /\ hw.did.ret.status = "error"

(***************************************************************************)
(* Properties of PosOrderHooks.on_order_completed (under SpecHooks)         *)
(***************************************************************************)
ComandaSteps == hook.pc \in {"c_connect", "c_print"}

\* C31: on_order_completed never raises to its caller, whatever connecting
\* to or printing on either printer did; the steps of the comanda print
\* change neither the fiscal adapter nor how the fiscal print ended; and
\* with the non-fiscal printer enabled the comanda print is attempted
\* whether the fiscal print succeeded, failed or raised.
C31_HookIsolatesPrints ==
    /\ [](~hook.raised)
    /\ []((hook.returned /\ hook.nonfiscal_enabled) => hook.comanda # "none")
    /\ [][ComandaSteps => (hook'.fiscal = hook.fiscal /\ UNCHANGED adapterVars)]_vars

\* the fiscal receipt could not be closed and the comanda print failed too
C31_Witness ==
    /\ hook.returned
    /\ hook.fiscal = "close_failed"
    /\ hook.comanda = "failed"

(***************************************************************************)
(* Properties of the receipt attempts on the shared adapter (under Spec)    *)
(***************************************************************************)
\* C34: a fiscal_print_receipt request that has returned, with success or
\* failure, in fail-safe or fail-strict mode, leaves the cached adapter's
\* current_state different from receipt_open, so that the open_receipt of
\* the next request is not refused with 'Receipt already open'.
C34_ReturnedAttemptLeavesNoOpenReceipt ==
    (ctl.pc = "idle" /\ ctl.result.present) => current_state # STATE_RECEIPT_OPEN

(***************************************************************************)
(* Properties of the adapter's socket (under SpecAdapter)                   *)
(***************************************************************************)
\* C33: adapter.socket is not None only while a connect() has succeeded and
\* no disconnect() followed; after a connect() that failed with timeout or
\* refusal adapter.socket is None, so that `if not printer.socket` makes the
\* caller connect again; and no call other than connect() opens a connection.
C33_AppearsConnectedOnlyWhenConnected ==
    /\ socket # "None" => socket = "open"
    /\ (last.op = "connect" /\ ~last.ret.ok) => socket = "None"
    /\ (last.op \notin {"none", "connect"} /\ last.psock # "open") => socket # "open"

\* C32: after any sequence of connect(), disconnect() and commands on one
\* adapter there is at most one connection that the adapter established and
\* has not closed: a further connect() never leaves an earlier connection
\* open behind it.
C32_AtMostOneConnection == unclosed <= 1

(***************************************************************************)
(* Properties of SF20Driver.handle_action (under SpecHw)                    *)
(***************************************************************************)
\* C35: on a driver through which no receipt has been opened, handle_action
\* with sell_item, apply_payment or close_receipt sends nothing to the
\* printer and fails with NotOpen.
C35_NothingSentWithoutOpenReceipt ==
    (/\ hw.op = "handle_action"
     /\ hw.cls = "SF20Driver"
     /\ hw.data.action \in {"sell_item", "apply_payment", "close_receipt"}
     /\ hw.did.exc = NoException)
    => (hw.did.sent = <<>> /\ hw.did.ret.info = "NotOpen")

(***************************************************************************)
(* Properties of the drivers' connections (under SpecWire)                  *)
(***************************************************************************)
Count(calls, name) == Cardinality({k \in 1..Len(calls) : calls[k] = name})

WireCalled == pure.op \in {"send_command", "print_direct", "open_cashbox"}

Opener == IF pure.op = "send_command" THEN "socket" ELSE "factory"

\* C37: every _send_command call, and every direct print_receipt or
\* open_cashbox call of EscposTCPDriver whose factory returned a printer,
\* creates one connection and closes it once, as the last thing it does and
\* whatever happened in between; it returns even when close() raises; and
\* cut is called only after the content call, and only when that succeeded.
C37_OneConnectionClosedOnce ==
    (WireCalled /\ (pure.op = "send_command" \/ pure.input.o.factory = "ok"))
    => LET calls == pure.did.calls
       IN /\ Count(calls, Opener) = 1
          /\ calls[1] = Opener
          /\ Count(calls, "close") = 1
          /\ calls[Len(calls)] = "close"
          /\ pure.did.exc = "none"
          /\ Count(calls, "cut") =
               IF pure.op = "print_direct" /\ ContentDone(pure.input.payload, pure.input.o)
               THEN 1 ELSE 0
          /\ Count(calls, "cut") = 1 => calls[Len(calls) - 1] = "cut"

\* a command whose reply timed out, with a close() that raises
C37_Witness ==
    /\ pure.op = "send_command"
    /\ pure.input.o.close = "error"
    /\ pure.did.ret.error = "timeout"
    /\ Count(pure.did.calls, "recv") >= 1

\* a direct print whose content call failed: no cut, the printer is closed
C37_WitnessNoCut ==
    /\ pure.op = "print_direct"
    /\ pure.input.o.factory = "ok"
    /\ pure.input.o.content = "timeout"
    /\ pure.did.calls = <<"factory", "text", "close">>

\* C38: for every valid response frame, whatever bytes its payload holds
\* and however the stream splits it into chunks, _send_command reads up to
\* the frame's last byte and returns the frame parsed successfully.
C38_ValidFrameIsReturned ==
    (pure.op = "send_command" /\ pure.input.o.frame # <<>>)
    => /\ pure.did.ret.success
       /\ pure.did.ret.command = pure.input.cmd
       /\ <<STX, pure.input.cmd>> \o pure.did.ret.payload = 
            SubSeq(pure.input.o.frame, 1, Len(pure.input.o.frame) - 2)

\* C39: _send_command reports success only for a reply that acknowledges
\* the command sent: a well-formed frame whose command byte is NAK, or is
\* not the byte of the request, is reported as failure.
C39_SuccessOnlyOnAcknowledgement ==
    (pure.op = "send_command" /\ pure.did.ret.success)
    => (pure.did.ret.command = pure.input.cmd /\ pure.did.ret.command # NAK_BYTE)

(***************************************************************************)
(* Properties of concurrent requests on one adapter (under SpecRequests)    *)
(***************************************************************************)
InFlight == {t \in Threads : par.thr[t].waiting}

\* C36: with several fiscal_print_receipt requests for one pos_config_id
\* in progress, at most one command is in flight on the adapter's
\* connection at any time, and every item or payment the printer registers
\* belongs to the request whose open_receipt opened the receipt.
C36_RequestsSerialized ==
    /\ Cardinality(InFlight) <= 1
    /\ \A e \in par.registered : e[1] = e[2]

(***************************************************************************)
(* Properties of disconnect_all among other factory calls (under SpecSweep) *)
(***************************************************************************)
\* C40: with create_* or disconnect_* running at the same time, the sweep
\* of disconnect_all ends without raising, and every adapter it takes out
\* of the registry is one whose disconnect() it called.
C40_SweepDisconnectsWhatItDrops ==
    /\ sweep.pc # "raised"
    /\ sweep.dropped \subseteq sweep.visited

====
